---- MODULE Spec2Model ----
(***************************************************************************)
(* A model of the background job engine of Spoke (src/workers/jobs.js and  *)
(* src/server/api/lib/message-sending.js): the assignment reconciler       *)
(* assignTexters, the inbound reassembler handleIncomingMessageParts and   *)
(* the sticky messaging-service router.  The relational store is the only  *)
(* shared state; every worker is a process whose position is part of the   *)
(* state, so that interleavings of workers are behaviours of the model.    *)
(***************************************************************************)
EXTENDS Integers, Sequences, FiniteSets, TLC

(***************************************************************************)
(* Bounds of the model.                                                    *)
(***************************************************************************)
NumContacts == 3      \* contacts of the reconciled campaign
MaxNeed == 2          \* largest needsMessageCount of a roster entry
MaxEnumPool == 4      \* pools up to this size: every outcome of LIMIT n is tried

(***************************************************************************)
(* Values of the store.                                                    *)
(***************************************************************************)
NULL == -1            \* SQL NULL / JS null / NaN in an integer column
NoAssignment == 0     \* campaign_contact.assignment_id IS NULL
cid == 1              \* job.campaign_id, the campaign being reconciled
OtherCampaign == 2    \* a campaign no job of the model runs on
Runs == {1, 2}        \* two workers running assignTexters
Users == {1, 2}       \* texters: user 1 has an assignment, user 2 has none

VARIABLES
  campaign,           \* campaign id -> [use_dynamic_assignment, is_archived]
  envMax,             \* config.MAX_CONTACTS_PER_TEXTER (NULL: unset)
  contact,            \* campaign_contact: id -> row (committed)
  assignment,         \* assignment: set of rows (committed)
  nextAssignmentId,   \* the serial of assignment.id
  job,                \* job_request: run -> [exists, progress]
  run,                \* run -> the locals of its assignTexters call
  tx,                 \* run -> the uncommitted writes of its transaction
  db0                 \* history: the committed tables of the initial state

assignVars == <<campaign, envMax, contact, assignment, nextAssignmentId,
                job, run, tx, db0>>

VARIABLES
  pending,            \* pending_message_part: set of rows
  message,            \* message: the saved inbound rows, in insertion order
  needsResponse,      \* contact numbers whose contact was set to needsResponse
  threads,            \* contact numbers that have a conversation to attach to
  syncMessagePartProcessing,  \* the carrier adapters' flag
  young,              \* ids of the parts created less than ten minutes ago
  worker,             \* worker -> the locals of its handleIncomingMessageParts call
  parts0              \* history: pending and message of the initial state

partsVars == <<pending, message, needsResponse, threads, syncMessagePartProcessing,
               young, worker, parts0>>

VARIABLES
  messaging_service_stick,  \* messaging_service_stick: the committed rows
  resolver,           \* resolver -> the locals of its getContactMessagingService call
  bulk,               \* the locals of the assignMissingMessagingServices call
  returned,           \* history: <<cell, organization, identity>> returned for bound keys
  DEFAULT_SERVICE     \* config.DEFAULT_SERVICE

stickyVars == <<messaging_service_stick, resolver, bulk, returned, DEFAULT_SERVICE>>

VARIABLES
  campaign_contact,   \* campaign_contact as the import sees it: set of rows
  nextContactId,      \* the serial of campaign_contact.id
  job_request,        \* the job row of the import
  warehouse,          \* the rows (raw cells) of the warehouse table
  loader,             \* the locals of the loadContactsFromDataWarehouse call
  fragment,           \* executor -> the locals of its fragment call
  lambda,             \* the fragment descriptors handed to sendJobToAWSLambda
  deliveries,         \* deliveries made by the external executor
  WAREHOUSE_DB_LAMBDA_ITERATION,  \* config.WAREHOUSE_DB_LAMBDA_ITERATION
  processed,          \* history: the parts whose rows were inserted
  import0             \* history: campaign_contact of the initial state

importVars == <<campaign_contact, nextContactId, job_request, warehouse, loader,
                fragment, lambda, deliveries, WAREHOUSE_DB_LAMBDA_ITERATION,
                processed, import0>>

VARIABLES
  outbound,           \* message: id -> the committed send_status of an outbound row
  rowLock,            \* message id -> the sender whose transaction has locked the row
  sender,             \* sender -> the locals of its sendMessages call and its pastMessages
  dispatched,         \* history: <<sender, message id>> handed to a carrier adapter
  knexBound           \* the runtime has a global named knex

senderVars == <<outbound, rowLock, sender, dispatched, knexBound>>

VARIABLES
  uploadJob,          \* the job row of the uploadContacts job
  uploadedContacts,   \* the committed number of contacts of the uploaded campaign
  uploader,           \* the locals of the uploadContacts call
  exportJob,          \* the job row of the exportCampaign job
  exporter,           \* the locals of the exportCampaign call
  poller              \* the locals and the promise of the processSqsMessages call

jobsVars == <<uploadJob, uploadedContacts, uploader, exportJob, exporter, poller>>

vars == <<assignVars, partsVars, stickyVars, importVars, senderVars, jobsVars>>

Min(a, b) == IF a <= b THEN a ELSE b
Max(a, b) == IF a >= b THEN a ELSE b

RECURSIVE SeqById(_)
SeqById(S) ==
  IF S = {} THEN <<>>
  ELSE LET m == CHOOSE a \in S : \A b \in S : a.id <= b.id
       IN  <<m>> \o SeqById(S \ {m})

(***************************************************************************)
(* The transaction of a run: READ COMMITTED.  A run sees the committed     *)
(* rows and its own writes; a row it wrote is locked until it ends.        *)
(***************************************************************************)
EmptyTx == [cw |-> <<>>, ains |-> {}, adel |-> {}, amax |-> <<>>]

CAsg(r, c) ==
  IF c \in DOMAIN tx[r].cw THEN tx[r].cw[c] ELSE contact[c].assignment_id

LockedC(r, c) == \E o \in Runs \ {r} : c \in DOMAIN tx[o].cw

LockedA(r, id) ==
  \E o \in Runs \ {r} : id \in tx[o].adel \/ id \in DOMAIN tx[o].amax

AView(r) ==
  {IF a.id \in DOMAIN tx[r].amax
     THEN [a EXCEPT !.max_contacts = tx[r].amax[a.id]] ELSE a :
     a \in {b \in assignment : b.id \notin tx[r].adel}}
  \cup tx[r].ains

(***************************************************************************)
(* jobs.js 746-761: the persisted per-texter aggregates.                   *)
(***************************************************************************)
CurrentAssignments ==
  SeqById({[id |-> a.id, user_id |-> a.user_id, max_contacts |-> a.max_contacts,
            needs_message_count |->
              Cardinality({c \in DOMAIN contact :
                 contact[c].assignment_id = a.id
                 /\ contact[c].message_status = "needsMessage"}),
            full_contact_count |->
              Cardinality({c \in DOMAIN contact :
                 contact[c].assignment_id = a.id})] :
           a \in {b \in assignment : b.campaign_id = cid}})

FindTexter(texters, uid) ==
  LET I == {i \in 1..Len(texters) : texters[i].id = uid}
  IN  IF I = {} THEN 0 ELSE CHOOSE i \in I : \A j \in I : i <= j

(***************************************************************************)
(* jobs.js 768-814: one persisted assignment is unchanged, demoted, or its *)
(* roster entry's intake becomes the delta.                                *)
(***************************************************************************)
\* a classification that never finds a texter unchanged
ClassifyOne_NoUnchanged(acc, a, dynamic) ==
  LET i == FindTexter(acc.texters, a.user_id) IN
  IF i = 0
    THEN [acc EXCEPT !.demoted = @ \cup {[id |-> a.id, by |-> a.needs_message_count]}]
    ELSE
      LET t == acc.texters[i]
          clientMessagedCount == t.contactsCount - t.needsMessageCount
          serverMessagedCount == a.full_contact_count - a.needs_message_count
          numDifferent == t.needsMessageCount - a.needs_message_count
                          - Max(0, serverMessagedCount - clientMessagedCount)
      IN  IF ~dynamic
            THEN IF numDifferent < 0
                   THEN [acc EXCEPT !.demoted = @ \cup {[id |-> a.id, by |-> -numDifferent]}]
                   ELSE [acc EXCEPT !.texters[i].needsMessageCount = numDifferent]
            ELSE acc

ClassifyOne(acc, a, dynamic) ==
  LET i == FindTexter(acc.texters, a.user_id) IN
  IF i = 0
    THEN [acc EXCEPT !.demoted = @ \cup {[id |-> a.id, by |-> a.needs_message_count]}]
    ELSE
      LET t == acc.texters[i]
          unchangedMaxContacts == t.maxContacts = a.max_contacts
          unchangedNeedsMessageCount == t.needsMessageCount = a.needs_message_count
          clientMessagedCount == t.contactsCount - t.needsMessageCount
          serverMessagedCount == a.full_contact_count - a.needs_message_count
          numDifferent == t.needsMessageCount - a.needs_message_count
                          - Max(0, serverMessagedCount - clientMessagedCount)
      IN  IF (~dynamic /\ unchangedNeedsMessageCount) \/ (dynamic /\ unchangedMaxContacts)
            THEN [acc EXCEPT !.unchanged = @ \cup {a.user_id}]
            ELSE IF ~dynamic
              THEN IF numDifferent < 0
                     THEN [acc EXCEPT !.demoted = @ \cup {[id |-> a.id, by |-> -numDifferent]}]
                     ELSE [acc EXCEPT !.texters[i].needsMessageCount = numDifferent]
              ELSE acc

RECURSIVE ClassifyFrom(_, _, _, _)
ClassifyFrom(acc, cur, k, dynamic) ==
  IF k > Len(cur) THEN acc
  ELSE ClassifyFrom(ClassifyOne(acc, cur[k], dynamic), cur, k + 1, dynamic)

Classify(texters, cur, dynamic) ==
  ClassifyFrom([texters |-> texters, unchanged |-> {}, demoted |-> {}], cur, 1, dynamic)

(***************************************************************************)
(* jobs.js 852-860: the max_contacts written for a roster entry.           *)
(***************************************************************************)
MaxContactsFor(texterMax, eMax) ==
  IF texterMax # NULL
    THEN IF eMax = NULL \/ Min(texterMax, eMax) = 0 THEN texterMax
         ELSE Min(texterMax, eMax)
    ELSE IF eMax # NULL THEN eMax ELSE NULL

\* workers/lib updateJob: record the progress on the job row, if it is still there
updateJob(r, percent) ==
  IF job[r].exists THEN [job EXCEPT ![r].progress = percent] ELSE job

LowestN(S, n) == {c \in S : Cardinality({d \in S : d < c}) < n}

\* the rows a "LIMIT n" without ORDER BY may return from the candidates
PickSets(cands, n) ==
  LET m == Min(n, Cardinality(cands)) IN
  IF Cardinality(cands) <= MaxEnumPool
    THEN {S \in SUBSET cands : Cardinality(S) = m}
    ELSE {LowestN(cands, m)}

\* released, claimed, counted and walked are history: the contacts released and
\* claimed, the count of jobs.js 835-842 and the turns of the roster walk
IdleRun == [pc |-> "idle", payload |-> <<>>, texters |-> <<>>, cur |-> <<>>, unchanged |-> {},
            demoted |-> {}, availableContacts |-> 0, index |-> 1,
            newAssignments |-> <<>>, existingAssignments |-> <<>>,
            dynamicAssignments |-> <<>>, k |-> 1, assignmentIds |-> {},
            released |-> {}, claimed |-> {},
            counted |-> 0, walked |-> <<>>, failure |-> "none"]

Dynamic == campaign[cid].use_dynamic_assignment

(***************************************************************************)
(* jobs.js 742-817: read the campaign and the aggregates, classify, open   *)
(* the transaction.                                                        *)
(***************************************************************************)
Start(r, texters) ==
  /\ run[r].pc = "idle"
  /\ LET cur == CurrentAssignments
         cls == Classify(texters, cur, Dynamic)
     IN  run' = [run EXCEPT ![r] =
                   [IdleRun EXCEPT !.pc = "release", !.texters = cls.texters,
                                   !.payload = texters,
                                   !.cur = cur, !.unchanged = cls.unchanged,
                                   !.demoted = cls.demoted]]
  /\ UNCHANGED <<campaign, envMax, contact, assignment, nextAssignmentId, job, tx, db0, partsVars, stickyVars, importVars, senderVars, jobsVars>>

(***************************************************************************)
(* jobs.js 819-833: unassign ALL needsMessage contacts of the demoted      *)
(* assignments; the UPDATE waits for rows another transaction has locked.  *)
(***************************************************************************)
\* a release of only the demotion count of each demoted assignment
ReleaseTargets_DemotionCount(r) ==
  UNION {LowestN({c \in DOMAIN contact :
                    /\ CAsg(r, c) = d.id
                    /\ contact[c].message_status = "needsMessage"
                    /\ contact[c].archived = campaign[cid].is_archived}, d.by) :
         d \in run[r].demoted}

\* a release of every contact of the demoted assignments, whatever its status
ReleaseTargets_AnyStatus(r) ==
  {c \in DOMAIN contact :
     /\ CAsg(r, c) \in {d.id : d \in run[r].demoted}
     /\ contact[c].archived = campaign[cid].is_archived}

ReleaseTargets(r) ==
  {c \in DOMAIN contact :
     /\ CAsg(r, c) \in {d.id : d \in run[r].demoted}
     /\ contact[c].message_status = "needsMessage"
     /\ contact[c].archived = campaign[cid].is_archived}

\* a release issued on the plain connection instead of the transaction
ReleaseDemoted_NoTrx(r) ==
  /\ run[r].pc = "release"
  /\ \A c \in ReleaseTargets(r) : ~LockedC(r, c)
  /\ contact' = [c \in DOMAIN contact |->
                   IF c \in ReleaseTargets(r)
                     THEN [contact[c] EXCEPT !.assignment_id = NoAssignment]
                     ELSE contact[c]]
  /\ run' = [run EXCEPT ![r].pc = "count", ![r].released = ReleaseTargets(r)]
  /\ job' = updateJob(r, 20)
  /\ UNCHANGED <<campaign, envMax, assignment, nextAssignmentId, tx, db0, partsVars, stickyVars, importVars, senderVars, jobsVars>>

ReleaseDemoted(r) ==
  /\ run[r].pc = "release"
  /\ \A c \in ReleaseTargets(r) : ~LockedC(r, c)
  /\ tx' = [tx EXCEPT ![r].cw = [c \in ReleaseTargets(r) |-> NoAssignment] @@ @]
  /\ run' = [run EXCEPT ![r].pc = "count", ![r].released = ReleaseTargets(r)]
  /\ job' = updateJob(r, 20)
  /\ UNCHANGED <<campaign, envMax, contact, assignment, nextAssignmentId, db0, partsVars, stickyVars, importVars, senderVars, jobsVars>>

(***************************************************************************)
(* jobs.js 835-842: availableContacts, counted inside the transaction.     *)
(***************************************************************************)
\* a pool that holds the campaign's contacts whether or not they are assigned
Unassigned_AnyAssignment(r) ==
  {c \in DOMAIN contact :
     /\ contact[c].campaign_id = cid
     /\ contact[c].archived = campaign[cid].is_archived}

\* a count of the unassigned contacts of every campaign
Unassigned_AnyCampaign(r) ==
  {c \in DOMAIN contact :
     /\ CAsg(r, c) = NoAssignment
     /\ contact[c].archived = campaign[cid].is_archived}

Unassigned(r) ==
  {c \in DOMAIN contact :
     /\ CAsg(r, c) = NoAssignment
     /\ contact[c].campaign_id = cid
     /\ contact[c].archived = campaign[cid].is_archived}

CountAvailable(r) ==
  /\ run[r].pc = "count"
  /\ run' = [run EXCEPT ![r].pc = "walk",
                        ![r].availableContacts = Cardinality(Unassigned(r)),
                        ![r].counted = Cardinality(Unassigned(r))]
  /\ UNCHANGED <<campaign, envMax, contact, assignment, nextAssignmentId, job, tx, db0, partsVars, stickyVars, importVars, senderVars, jobsVars>>

(***************************************************************************)
(* jobs.js 849-910: one iteration of the sequential roster walk.           *)
(***************************************************************************)
FindExisting(cur, texterId) ==
  LET I == {i \in 1..Len(cur) : cur[i].user_id = texterId}
  IN  IF I = {} THEN 0 ELSE CHOOSE i \in I : \A j \in I : i <= j

\* an intake that ignores the pool
ContactsToAssign_Unbounded(availableContacts, needsMessageCount) == needsMessageCount

\* jobs.js 866-869
ContactsToAssign(availableContacts, needsMessageCount) ==
  Min(availableContacts, needsMessageCount)

WalkRoster(r) ==
  /\ run[r].pc = "walk"
  /\ LET me == run[r]
         index == me.index
     IN
     IF index > Len(me.texters)
       THEN /\ run' = [run EXCEPT ![r].pc = "dynamic", ![r].k = 1]
            /\ job' = job
       ELSE
         LET texter == me.texters[index]
             texterId == texter.id
             maxContacts == MaxContactsFor(texter.maxContacts, envMax)
             contactsToAssign ==
               ContactsToAssign(me.availableContacts, texter.needsMessageCount)
             e == FindExisting(me.cur, texterId)
             textingWork == (75 * index) \div Len(me.texters)
             turn == [index |-> index, availableContacts |-> me.availableContacts,
                      needsMessageCount |-> texter.needsMessageCount,
                      contactsToAssign |-> contactsToAssign]
         IN
         IF texterId \in me.unchanged
           THEN /\ run' = [run EXCEPT ![r].index = index + 1]
                /\ job' = job
         ELSE IF contactsToAssign = 0 /\ ~Dynamic
           THEN /\ run' = [run EXCEPT ![r].index = index + 1,
                                      ![r].walked = Append(@, turn)]
                /\ job' = job
           ELSE
             /\ run' = [run EXCEPT
                  ![r].index = index + 1,
                  ![r].walked = Append(@, turn),
                  ![r].availableContacts = @ - contactsToAssign,
                  ![r].existingAssignments =
                     IF e # 0 /\ ~Dynamic
                       THEN Append(@, [id |-> me.cur[e].id,
                                       contactsToAssign |-> contactsToAssign])
                       ELSE @,
                  ![r].dynamicAssignments =
                     IF e # 0 /\ Dynamic
                       THEN Append(@, [id |-> me.cur[e].id, max_contacts |-> maxContacts])
                       ELSE @,
                  ![r].newAssignments =
                     IF e = 0
                       THEN Append(@, [id |-> NoAssignment, user_id |-> texterId,
                                       max_contacts |-> maxContacts,
                                       contactsToAssign |-> contactsToAssign])
                       ELSE @]
             /\ job' = updateJob(r, textingWork + 20)
  /\ UNCHANGED <<campaign, envMax, contact, assignment, nextAssignmentId, tx, db0, partsVars, stickyVars, importVars, senderVars, jobsVars>>

(***************************************************************************)
(* jobs.js 913-920: update max_contacts of the changed dynamic assignments *)
(***************************************************************************)
UpdateDynamic(r) ==
  /\ run[r].pc = "dynamic"
  /\ LET me == run[r] IN
     IF me.k > Len(me.dynamicAssignments)
       THEN /\ run' = [run EXCEPT ![r].pc = "existing", ![r].k = 1]
            /\ tx' = tx
       ELSE LET d == me.dynamicAssignments[me.k] IN
            /\ ~LockedA(r, d.id)
            /\ tx' = IF \E a \in AView(r) : a.id = d.id /\ a \notin tx[r].ains
                       THEN [tx EXCEPT ![r].amax = (d.id :> d.max_contacts) @@ @]
                       ELSE tx
            /\ run' = [run EXCEPT ![r].k = @ + 1]
  /\ UNCHANGED <<campaign, envMax, contact, assignment, nextAssignmentId, job, db0, partsVars, stickyVars, importVars, senderVars, jobsVars>>

(***************************************************************************)
(* jobs.js 926-952 assignContacts: claim up to contactsToAssign unassigned *)
(* contacts, skipping rows locked by another transaction, and point them   *)
(* at the assignment.                                                      *)
(***************************************************************************)
\* a claim without SKIP LOCKED
Claimable_NoSkipLocked(r) == Unassigned(r)

Claimable(r) == {c \in Unassigned(r) : ~LockedC(r, c)}

assignContacts(r, assignment_id, contactsToAssign) ==
  \E S \in PickSets(Claimable(r), contactsToAssign) :
    /\ tx' = [tx EXCEPT ![r].cw = [c \in S |-> assignment_id] @@ @]
    /\ run' = [run EXCEPT ![r].k = @ + 1,
                          ![r].claimed = @ \cup {<<c, assignment_id>> : c \in S}]

\* jobs.js 955-968
AssignExisting(r) ==
  /\ run[r].pc = "existing"
  /\ LET me == run[r] IN
     IF me.k > Len(me.existingAssignments)
       THEN /\ run' = [run EXCEPT ![r].pc = "new", ![r].k = 1]
            /\ tx' = tx
       ELSE assignContacts(r, me.existingAssignments[me.k].id,
                           me.existingAssignments[me.k].contactsToAssign)
  /\ UNCHANGED <<campaign, envMax, contact, assignment, nextAssignmentId, job, db0, partsVars, stickyVars, importVars, senderVars, jobsVars>>

\* jobs.js 971-996: insert the assignment rows of the new texters
InsertNew(r) ==
  /\ run[r].pc = "new"
  /\ LET me == run[r] IN
     IF me.k > Len(me.newAssignments)
       THEN /\ run' = [run EXCEPT ![r].pc = IF Dynamic THEN "zero" ELSE "newclaim",
                                  ![r].k = 1]
            /\ UNCHANGED <<tx, nextAssignmentId>>
       ELSE LET d == me.newAssignments[me.k] IN
            /\ tx' = [tx EXCEPT ![r].ains = @ \cup
                        {[id |-> nextAssignmentId, campaign_id |-> cid,
                          user_id |-> d.user_id, max_contacts |-> d.max_contacts]}]
            /\ nextAssignmentId' = nextAssignmentId + 1
            /\ run' = [run EXCEPT ![r].k = @ + 1,
                                  ![r].newAssignments[me.k].id = nextAssignmentId]
  /\ UNCHANGED <<campaign, envMax, contact, assignment, job, db0, partsVars, stickyVars, importVars, senderVars, jobsVars>>

\* jobs.js 997-1018
AssignNew(r) ==
  /\ run[r].pc = "newclaim"
  /\ LET me == run[r] IN
     IF me.k > Len(me.newAssignments)
       THEN /\ run' = [run EXCEPT ![r].pc = "zero", ![r].k = 1]
            /\ tx' = tx
       ELSE assignContacts(r, me.newAssignments[me.k].id,
                           me.newAssignments[me.k].contactsToAssign)
  /\ UNCHANGED <<campaign, envMax, contact, assignment, nextAssignmentId, job, db0, partsVars, stickyVars, importVars, senderVars, jobsVars>>

(***************************************************************************)
(* jobs.js 1022-1040: standard mode deletes the assignments of the         *)
(* campaign that no contact references (a SELECT, then a DELETE).          *)
(***************************************************************************)
\* a selection that finds no assignment
ZeroContactAssignments_None(r) == {}

\* jobs.js 1025-1035: the assignments of the campaign that no contact references
ZeroContactAssignments(r) ==
  {a.id : a \in {b \in AView(r) :
     /\ b.campaign_id = cid
     /\ ~\E c \in DOMAIN contact : CAsg(r, c) = b.id}}

SelectZero(r) ==
  /\ run[r].pc = "zero"
  /\ run' = [run EXCEPT
       ![r].pc = IF Dynamic THEN "jobdel" ELSE "zerodel",
       ![r].assignmentIds =
          IF Dynamic THEN {} ELSE ZeroContactAssignments(r)]
  /\ UNCHANGED <<campaign, envMax, contact, assignment, nextAssignmentId, job, tx, db0, partsVars, stickyVars, importVars, senderVars, jobsVars>>

DeleteZero(r) ==
  /\ run[r].pc = "zerodel"
  /\ \A id \in run[r].assignmentIds : ~LockedA(r, id)
  /\ tx' = [tx EXCEPT
       ![r].ains = {a \in @ : a.id \notin run[r].assignmentIds},
       ![r].adel = @ \cup {a.id : a \in {b \in assignment :
                                           b.id \in run[r].assignmentIds}}]
  /\ run' = [run EXCEPT ![r].pc = "jobdel"]
  /\ UNCHANGED <<campaign, envMax, contact, assignment, nextAssignmentId, job, db0, partsVars, stickyVars, importVars, senderVars, jobsVars>>

\* jobs.js 1042-1047: the job row is deleted outside the transaction
DeleteJob(r) ==
  /\ run[r].pc = "jobdel"
  /\ job' = [job EXCEPT ![r].exists = FALSE]
  /\ run' = [run EXCEPT ![r].pc = "commit"]
  /\ UNCHANGED <<campaign, envMax, contact, assignment, nextAssignmentId, tx, db0, partsVars, stickyVars, importVars, senderVars, jobsVars>>

\* jobs.js 1050-1051: execute().then(trx.commit)
Commit(r) ==
  /\ run[r].pc = "commit"
  /\ contact' = [c \in DOMAIN contact |->
                   IF c \in DOMAIN tx[r].cw
                     THEN [contact[c] EXCEPT !.assignment_id = tx[r].cw[c]]
                     ELSE contact[c]]
  /\ assignment' = AView(r)
  /\ tx' = [tx EXCEPT ![r] = EmptyTx]
  /\ run' = [run EXCEPT ![r] = [IdleRun EXCEPT !.pc = "done",
                                  !.payload = run[r].payload, !.cur = run[r].cur,
                                  !.released = run[r].released,
                                  !.claimed = run[r].claimed,
                                  !.counted = run[r].counted,
                                  !.walked = run[r].walked]]
  /\ UNCHANGED <<campaign, envMax, nextAssignmentId, job, db0, partsVars, stickyVars, importVars, senderVars, jobsVars>>

\* jobs.js 1052-1055: any step of execute() throws: trx.rollback
InTransaction(r) ==
  run[r].pc \in {"release", "count", "walk", "dynamic", "existing", "new",
                 "newclaim", "zero", "zerodel", "jobdel", "commit"}

Rollback(r) ==
  /\ InTransaction(r)
  /\ tx' = [tx EXCEPT ![r] = EmptyTx]
  /\ run' = [run EXCEPT ![r] = [IdleRun EXCEPT !.pc = "failed", !.failure = "error"]]
  /\ UNCHANGED <<campaign, envMax, contact, assignment, nextAssignmentId, job, db0, partsVars, stickyVars, importVars, senderVars, jobsVars>>

\* jobs.js 961-964 and 1009-1017: a notification is awaited, for an updated
\* assignment after its claim, for the created assignments after their claims
Notifying(r) ==
  \/ run[r].pc = "existing" /\ run[r].k > 1
  \/ /\ run[r].pc = "newclaim"
     /\ run[r].newAssignments # <<>>
     /\ run[r].k > Len(run[r].newAssignments)

\* jobs.js 955-968, 1009-1017, 1050-1055: sendUserNotification rejects; nothing
\* inside execute() catches the rejection, so the transaction is rolled back
NotifyFails(r) ==
  /\ Notifying(r)
  /\ tx' = [tx EXCEPT ![r] = EmptyTx]
  /\ run' = [run EXCEPT ![r] = [IdleRun EXCEPT !.pc = "failed",
                                  !.failure = "notification",
                                  !.payload = run[r].payload,
                                  !.claimed = run[r].claimed]]
  /\ UNCHANGED <<campaign, envMax, contact, assignment, nextAssignmentId, job, db0, partsVars, stickyVars, importVars, senderVars, jobsVars>>

assignTexters(r) ==
  \/ ReleaseDemoted(r)
  \/ CountAvailable(r)
  \/ WalkRoster(r)
  \/ UpdateDynamic(r)
  \/ AssignExisting(r)
  \/ InsertNew(r)
  \/ AssignNew(r)
  \/ SelectZero(r)
  \/ DeleteZero(r)
  \/ DeleteJob(r)
  \/ Commit(r)
  \/ Rollback(r)
  \/ NotifyFails(r)

(***************************************************************************)
(* The inbound reassembler, jobs.js 1512-1631, and saveNewIncomingMessage, *)
(* message-sending.js 324-349.  A pending part is a row                    *)
(*   [id, service, service_id, parent_id, contact_number, user_number,     *)
(*    part, total]                                                         *)
(* where part and total are "concat-part" and "concat-total" of its        *)
(* service_message; its text is identified with its id.  No transaction is *)
(* opened: every statement of a pass is committed at once.                 *)
(***************************************************************************)
MaxParts == 3         \* pending parts of the initial state
MaxPasses == 2        \* passes of one worker

NoParent == 0         \* pending_message_part.parent_id is empty
Workers == {1, 2}     \* processes running handleIncomingMessageParts
KnownServices == {"nexmo", "twilio"}

IdleWorker == [pc |-> "idle", last |-> "none", passes |-> 0, batch |-> <<>>,
               services |-> <<>>, allParts |-> <<>>, i |-> 1,
               messagesToSave |-> <<>>, messagePartsToDelete |-> <<>>,
               concatMessageParts |-> <<>>, k |-> 1]

PartsIdle ==
  /\ pending = {}
  /\ message = <<>>
  /\ needsResponse = {}
  /\ threads = {}
  /\ syncMessagePartProcessing = FALSE
  /\ young = {}
  /\ worker = [w \in Workers |-> IdleWorker]
  /\ parts0 = [pending |-> pending, message |-> message, young |-> young]

RECURSIVE Orders(_)
Orders(S) ==
  IF S = {} THEN {<<>>}
  ELSE UNION {{<<x>> \o t : t \in Orders(S \ {x})} : x \in S}

\* jobs.js 1513-1516: select * ... limit 100, in any order
Batches ==
  UNION {Orders(S) : S \in {T \in SUBSET pending :
                              Cardinality(T) = Min(100, Cardinality(pending))}}

RECURSIVE SelectParts(_, _, _)
SelectParts(b, s, onlyOld) ==
  IF b = <<>> THEN <<>>
  ELSE (IF Head(b).service = s /\ (onlyOld => Head(b).id \notin young)
          THEN <<Head(b)>> ELSE <<>>) \o SelectParts(Tail(b), s, onlyOld)

\* jobs.js 1517-1525: the keys of messagePartsByService, in insertion order
RECURSIVE ServiceOrder(_, _)
ServiceOrder(b, seen) ==
  IF b = <<>> THEN <<>>
  ELSE IF Head(b).service \in KnownServices /\ Head(b).service \notin seen
    THEN <<Head(b).service>> \o ServiceOrder(Tail(b), seen \cup {Head(b).service})
    ELSE ServiceOrder(Tail(b), seen)

\* the conversation lookup of a contact number
getLastMessage(contactNumber, service) == contactNumber \in threads

\* the carrier adapter: one message of the parts, in the order given
convertMessagePartsToMessage(parts) ==
  [service_id |-> parts[1].service_id, service |-> parts[1].service,
   contact_number |-> parts[1].contact_number,
   text |-> [j \in 1..Len(parts) |-> parts[j].id]]

PartById(b, id) == CHOOSE p \in {b[j] : j \in 1..Len(b)} : p.id = id

(* jobs.js 1512-1525 *)
Fetch(w) ==
  /\ worker[w].pc = "idle"
  /\ worker[w].passes < MaxPasses
  /\ \E b \in Batches :
       worker' = [worker EXCEPT ![w] =
                    [IdleWorker EXCEPT !.pc = "service", !.batch = b,
                                       !.passes = worker[w].passes,
                                       !.services = ServiceOrder(b, {})]]
  /\ UNCHANGED <<pending, message, needsResponse, threads, syncMessagePartProcessing,
                 young, parts0, assignVars, stickyVars, importVars, senderVars, jobsVars>>

(* jobs.js 1526-1542: the next carrier of the pass *)
NextService(w) ==
  /\ worker[w].pc = "service"
  /\ LET me == worker[w] IN
     IF me.services = <<>>
       THEN worker' = [worker EXCEPT ![w] =
                         [IdleWorker EXCEPT !.last = "done", !.passes = me.passes + 1]]
       ELSE
         LET allParts == SelectParts(me.batch, Head(me.services),
                                     syncMessagePartProcessing)
         IN  IF Len(allParts) = 0
               THEN worker' = [worker EXCEPT ![w].services = Tail(@)]
               ELSE worker' = [worker EXCEPT
                      ![w].pc = "loop", ![w].allParts = allParts, ![w].i = 1,
                      ![w].messagesToSave = <<>>, ![w].messagePartsToDelete = <<>>,
                      ![w].concatMessageParts = <<>>]
  /\ UNCHANGED <<pending, message, needsResponse, threads, syncMessagePartProcessing,
                 young, parts0, assignVars, stickyVars, importVars, senderVars, jobsVars>>

FindGroup(groups, key) ==
  LET I == {j \in 1..Len(groups) : groups[j].key = key}
  IN  IF I = {} THEN 0 ELSE CHOOSE j \in I : TRUE

\* a loop body that does not look at the messages staged earlier in the batch
StagedDuplicate_Never(staged, serviceMessageId) == FALSE

\* jobs.js 1556-1558 duplicateMessageToSaveExists
StagedDuplicate(staged, serviceMessageId) ==
  \E j \in 1..Len(staged) : staged[j].service_id = serviceMessageId

\* a slot index taken in arrival order instead of from concat-part
PartIndex_Arrival(part, slots) ==
  LET free == {j \in 1..Len(slots) : slots[j] = 0}
  IN  IF free = {} THEN 1 ELSE CHOOSE j \in free : \A h \in free : j <= h

\* jobs.js 1592 partIndex (here 1-based)
PartIndex(part, slots) == part.part

(* jobs.js 1543-1600: one iteration of the loop over the carrier's parts *)
ProcessPart(w) ==
  /\ worker[w].pc = "loop"
  /\ worker[w].i <= Len(worker[w].allParts)
  /\ LET me == worker[w]
         part == me.allParts[me.i]
         serviceMessageId == part.service_id
         savedCount == Cardinality({j \in 1..Len(message) :
                                      message[j].service_id = serviceMessageId})
         lastMessage == getLastMessage(part.contact_number, Head(me.services))
         duplicateMessageToSaveExists == StagedDuplicate(me.messagesToSave, serviceMessageId)
         groupKey == <<part.parent_id, part.contact_number, part.user_number>>
         g == FindGroup(me.concatMessageParts, groupKey)
         groups == IF g = 0
                     THEN Append(me.concatMessageParts,
                                 [key |-> groupKey, slots |-> [j \in 1..part.total |-> 0]])
                     ELSE me.concatMessageParts
         gi == IF g = 0 THEN Len(groups) ELSE g
         partIndex == PartIndex(part, groups[gi].slots)
     IN
     IF ~lastMessage \/ savedCount > 0 \/ duplicateMessageToSaveExists
       THEN worker' = [worker EXCEPT ![w].i = @ + 1,
                         ![w].messagePartsToDelete = Append(@, part.id)]
       ELSE IF part.parent_id = NoParent
         THEN worker' = [worker EXCEPT ![w].i = @ + 1,
                           ![w].messagesToSave =
                              Append(@, convertMessagePartsToMessage(<<part>>)),
                           ![w].messagePartsToDelete = Append(@, part.id)]
         ELSE IF part.service # "nexmo"
           THEN worker' = [worker EXCEPT ![w] =
                             [IdleWorker EXCEPT !.last = "failed",
                                                !.passes = me.passes + 1]]
           ELSE IF groups[gi].slots[partIndex] # 0
             THEN worker' = [worker EXCEPT ![w].i = @ + 1,
                               ![w].concatMessageParts = groups,
                               ![w].messagePartsToDelete = Append(@, part.id)]
             ELSE worker' = [worker EXCEPT ![w].i = @ + 1,
                               ![w].concatMessageParts =
                                  [groups EXCEPT ![gi].slots[partIndex] = part.id]]
  /\ UNCHANGED <<pending, message, needsResponse, threads, syncMessagePartProcessing,
                 young, parts0, assignVars, stickyVars, importVars, senderVars, jobsVars>>

IsComplete(slots) == \A j \in 1..Len(slots) : slots[j] # 0

RECURSIVE CompletedFrom(_, _, _)
CompletedFrom(acc, groups, b) ==
  IF groups = <<>> THEN acc
  ELSE LET slots == Head(groups).slots IN
       IF IsComplete(slots)
         THEN CompletedFrom(
                [messagePartsToDelete |-> acc.messagePartsToDelete \o slots,
                 messagesToSave |-> Append(acc.messagesToSave,
                    convertMessagePartsToMessage(
                      [j \in 1..Len(slots) |-> PartById(b, slots[j])]))],
                Tail(groups), b)
         ELSE CompletedFrom(acc, Tail(groups), b)

(* jobs.js 1601-1613: the groups whose slots are all filled *)
CompleteGroups(w) ==
  /\ worker[w].pc = "loop"
  /\ worker[w].i > Len(worker[w].allParts)
  /\ LET me == worker[w]
         res == CompletedFrom([messagePartsToDelete |-> me.messagePartsToDelete,
                               messagesToSave |-> me.messagesToSave],
                              me.concatMessageParts, me.batch)
     IN  worker' = [worker EXCEPT ![w].pc = "save", ![w].k = 1,
                      ![w].messagesToSave = res.messagesToSave,
                      ![w].messagePartsToDelete = res.messagePartsToDelete]
  /\ UNCHANGED <<pending, message, needsResponse, threads, syncMessagePartProcessing,
                 young, parts0, assignVars, stickyVars, importVars, senderVars, jobsVars>>

\* a save whose insert is lost
saveNewIncomingMessage_Lost(messageInstance) ==
  UNCHANGED <<message, needsResponse>>

(* message-sending.js 324-349 *)
saveNewIncomingMessage(messageInstance) ==
  /\ message' = Append(message, messageInstance)
  /\ needsResponse' = needsResponse \cup {messageInstance.contact_number}

(* jobs.js 1615-1622: save the staged messages one by one *)
SaveMessages(w) ==
  /\ worker[w].pc = "save"
  /\ LET me == worker[w] IN
     IF me.k > Len(me.messagesToSave)
       THEN /\ worker' = [worker EXCEPT ![w].pc = "delete"]
            /\ UNCHANGED <<message, needsResponse>>
       ELSE /\ saveNewIncomingMessage(me.messagesToSave[me.k])
            /\ worker' = [worker EXCEPT ![w].k = @ + 1]
  /\ UNCHANGED <<pending, threads, syncMessagePartProcessing, young, parts0, assignVars, stickyVars, importVars, senderVars, jobsVars>>

\* a pass that deletes every part of its batch
PartsToDelete_All(w) == {p.id : p \in pending}

PartsToDelete(w) ==
  {worker[w].messagePartsToDelete[j] : j \in 1..Len(worker[w].messagePartsToDelete)}

(* jobs.js 1624-1629: delete the dropped and the consumed parts *)
DeleteParts(w) ==
  /\ worker[w].pc = "delete"
  /\ pending' = {p \in pending : p.id \notin PartsToDelete(w)}
  /\ young' = {id \in young : id \notin PartsToDelete(w)}
  /\ worker' = [worker EXCEPT ![w].pc = "service", ![w].services = Tail(@)]
  /\ UNCHANGED <<message, needsResponse, threads, syncMessagePartProcessing,
                 parts0, assignVars, stickyVars, importVars, senderVars, jobsVars>>

\* a statement of the pass fails or the process dies: the pass ends there
Crash(w) ==
  /\ worker[w].pc \in {"service", "loop", "save", "delete"}
  /\ worker' = [worker EXCEPT ![w] =
                  [IdleWorker EXCEPT !.last = "failed", !.passes = worker[w].passes + 1]]
  /\ UNCHANGED <<pending, message, needsResponse, threads, syncMessagePartProcessing,
                 young, parts0, assignVars, stickyVars, importVars, senderVars, jobsVars>>

\* ten minutes pass
Tick ==
  /\ young # {}
  /\ young' = {}
  /\ UNCHANGED <<pending, message, needsResponse, threads, syncMessagePartProcessing,
                 worker, parts0, assignVars, stickyVars, importVars, senderVars, jobsVars>>

handleIncomingMessageParts(w) ==
  \/ Fetch(w)
  \/ NextService(w)
  \/ ProcessPart(w)
  \/ CompleteGroups(w)
  \/ SaveMessages(w)
  \/ DeleteParts(w)
  \/ Crash(w)

(***************************************************************************)
(* The sticky messaging-service router, message-sending.js 21-209.         *)
(* messaging_service_stick is a list of rows                               *)
(*   [cell, organization_id, messaging_service_sid];                       *)
(* a resolver is a process calling getContactMessagingService, the bulk    *)
(* process is a call of assignMissingMessagingServices inside the          *)
(* transaction of its caller (jobs.js 254-258).                            *)
(***************************************************************************)
MaxCalls == 1         \* calls of one resolver, calls of the bulk variant

Resolvers == {1, 2}
Cells == {1, 2}
Organizations == {1, 2}

\* messaging_service: organization 1 has two sending identities, organization 2 one
messaging_service ==
  {[messaging_service_sid |-> 1, organization_id |-> 1],
   [messaging_service_sid |-> 2, organization_id |-> 1],
   [messaging_service_sid |-> 3, organization_id |-> 2]}

\* campaign_contact joined with campaign: id -> cell, campaign, organization
ContactCells ==
  <<[cell |-> 1, campaign_id |-> 1, organization_id |-> 1],
    [cell |-> 2, campaign_id |-> 1, organization_id |-> 1],
    [cell |-> 1, campaign_id |-> 1, organization_id |-> 1],
    [cell |-> 1, campaign_id |-> 2, organization_id |-> 2]>>

UnknownContact == Len(ContactCells) + 1

\* campaign 3 belongs to organization 3, which has no messaging service; the
\* resolvers of the model are not called for its contact
CampaignContacts ==
  ContactCells \o <<[cell |-> 2, campaign_id |-> 3, organization_id |-> 3]>>

IdleResolver == [pc |-> "idle", id |-> 0, cell |-> 0, organization_id |-> 0,
                 pre |-> NULL, existing |-> NULL, result |-> NULL, calls |-> 0]

IdleBulk == [pc |-> "idle", campaignId |-> 0, organizationId |-> 0,
             cells |-> <<>>, candidateServices |-> <<>>,
             trx |-> <<>>, calls |-> 0]

SeqToSet(q) == {q[j] : j \in 1..Len(q)}

\* the rows of the store that bind (cell, organizationId)
Bindings(cell, organizationId) ==
  {j \in 1..Len(messaging_service_stick) :
     /\ messaging_service_stick[j].cell = cell
     /\ messaging_service_stick[j].organization_id = organizationId}

\* count(messaging_service_stick.messaging_service_sid) of a messaging service
StickCount(sid) ==
  Cardinality({j \in 1..Len(messaging_service_stick) :
                 messaging_service_stick[j].messaging_service_sid = sid})

\* an insert that accepts a second row for a key
InsertStick_NoUnique(rows) ==
  [ok |-> TRUE, table |-> messaging_service_stick \o rows]

\* the store: the first write for a key wins, a later insert for the key fails
\* and adds no row
InsertStick(rows) ==
  IF \/ \E j \in 1..Len(rows) : Bindings(rows[j].cell, rows[j].organization_id) # {}
     \/ \E j \in 1..Len(rows) : \E h \in 1..Len(rows) :
          j # h /\ rows[j].cell = rows[h].cell
                /\ rows[j].organization_id = rows[h].organization_id
    THEN [ok |-> FALSE, table |-> messaging_service_stick]
    ELSE [ok |-> TRUE, table |-> messaging_service_stick \o rows]

\* an insert waits while an uncommitted row of the bulk transaction has its key
Blocked(cell, organizationId) ==
  \E j \in 1..Len(bulk.trx) :
    bulk.trx[j].cell = cell /\ bulk.trx[j].organization_id = organizationId

(* message-sending.js 21-39: the organization's services, most bound first *)
getMessagingServiceCandidates(organizationId) ==
  {q \in Orders({m.messaging_service_sid : m \in
                   {n \in messaging_service : n.organization_id = organizationId}}) :
     \A j \in 1..(Len(q) - 1) : StickCount(q[j]) >= StickCount(q[j + 1])}

\* a choice of any service of the organization
ChosenMessagingServiceSid_Any(organizationId) ==
  {m.messaging_service_sid : m \in
     {n \in messaging_service : n.organization_id = organizationId}}

(* message-sending.js 56-68: a service of the organization with the fewest *)
(* bindings                                                                *)
ChosenMessagingServiceSid(organizationId) ==
  {m.messaging_service_sid : m \in
     {n \in messaging_service :
        /\ n.organization_id = organizationId
        /\ \A o \in messaging_service :
             o.organization_id = organizationId =>
               StickCount(n.messaging_service_sid) <= StickCount(o.messaging_service_sid)}}

\* a lookup that joins the bindings on the cell only
LookupRows_AnyOrganization(campaignContactId) ==
  IF campaignContactId \notin 1..Len(ContactCells) THEN {}
  ELSE LET cc_record == ContactCells[campaignContactId]
           found == {messaging_service_stick[j].messaging_service_sid :
                       j \in {h \in 1..Len(messaging_service_stick) :
                                messaging_service_stick[h].cell = cc_record.cell}}
       IN  IF found = {} THEN {NULL} ELSE found

(* message-sending.js 105-129: the rows of the lookup, as the sid of each  *)
LookupRows(campaignContactId) ==
  IF campaignContactId \notin 1..Len(ContactCells) THEN {}
  ELSE LET cc_record == ContactCells[campaignContactId]
           found == {messaging_service_stick[j].messaging_service_sid :
                       j \in Bindings(cc_record.cell, cc_record.organization_id)}
                    \cap {m.messaging_service_sid : m \in messaging_service}
       IN  IF found = {} THEN {NULL} ELSE found

\* the identity bound to the contact's (cell, organization), if any
BoundSid(campaignContactId) ==
  IF campaignContactId \notin 1..Len(ContactCells) THEN NULL
  ELSE LET cc_record == ContactCells[campaignContactId]
           B == Bindings(cc_record.cell, cc_record.organization_id)
       IN  IF B = {} THEN NULL
           ELSE messaging_service_stick[CHOOSE j \in B : \A h \in B : j <= h]
                  .messaging_service_sid

Returned(p, result) ==
  IF resolver[p].pre = NULL THEN returned
  ELSE returned \cup {<<resolver[p].cell, resolver[p].organization_id, result>>}

(* message-sending.js 101-138: the call, up to the result of its lookup    *)
Lookup(p, campaignContactId) ==
  /\ resolver[p].pc \in {"idle", "done", "error"}
  /\ resolver[p].calls < MaxCalls
  /\ LET call == [IdleResolver EXCEPT !.id = campaignContactId,
                                      !.calls = resolver[p].calls + 1,
                                      !.pre = BoundSid(campaignContactId)]
     IN
     IF DEFAULT_SERVICE = "fakeservice"
       THEN /\ resolver' = [resolver EXCEPT ![p] =
                              [call EXCEPT !.pc = "done", !.result = "fakeservice",
                                           !.pre = NULL]]
            /\ returned' = returned
       ELSE IF LookupRows(campaignContactId) = {}
         THEN /\ resolver' = [resolver EXCEPT ![p] = [call EXCEPT !.pc = "error"]]
              /\ returned' = returned
         ELSE \E lookupResult \in LookupRows(campaignContactId) :
                /\ resolver' = [resolver EXCEPT ![p] =
                     [call EXCEPT !.pc = "lookedup",
                                  !.cell = ContactCells[campaignContactId].cell,
                                  !.organization_id =
                                     ContactCells[campaignContactId].organization_id,
                                  !.existing = lookupResult]]
                /\ returned' = returned
  /\ UNCHANGED <<messaging_service_stick, bulk, DEFAULT_SERVICE, assignVars, partsVars, importVars, senderVars, jobsVars>>

(* message-sending.js 51-82 *)
assignMessagingServiceSID(p, cell, organizationId) ==
  /\ ~Blocked(cell, organizationId)
  /\ \E sid \in ChosenMessagingServiceSid(organizationId) :
       LET ins == InsertStick(<<[cell |-> cell, organization_id |-> organizationId,
                                 messaging_service_sid |-> sid]>>)
       IN  /\ messaging_service_stick' = ins.table
           /\ IF ins.ok
                THEN /\ resolver' = [resolver EXCEPT ![p].pc = "done", ![p].result = sid]
                     /\ returned' = Returned(p, sid)
                ELSE /\ resolver' = [resolver EXCEPT ![p].pc = "error"]
                     /\ returned' = returned

(* message-sending.js 140-149: return the match, or assign                 *)
Resolve(p) ==
  /\ resolver[p].pc = "lookedup"
  /\ IF resolver[p].existing # NULL
       THEN /\ resolver' = [resolver EXCEPT ![p].pc = "done",
                                            ![p].result = resolver[p].existing]
            /\ returned' = Returned(p, resolver[p].existing)
            /\ UNCHANGED messaging_service_stick
       ELSE assignMessagingServiceSID(p, resolver[p].cell, resolver[p].organization_id)
  /\ UNCHANGED <<bulk, DEFAULT_SERVICE, assignVars, partsVars, importVars, senderVars, jobsVars>>

getContactMessagingService(p) ==
  \/ \E campaignContactId \in 1..UnknownContact : Lookup(p, campaignContactId)
  \/ Resolve(p)

\* the cells of the campaign with a binding for any organization are skipped
UnboundCells_AnyOrganization(campaignId, organizationId) ==
  {CampaignContacts[c].cell : c \in {d \in 1..Len(CampaignContacts) :
     /\ CampaignContacts[d].campaign_id = campaignId
     /\ ~\E j \in 1..Len(messaging_service_stick) :
          messaging_service_stick[j].cell = CampaignContacts[d].cell}}

(* message-sending.js 173-190: the distinct cells of the campaign without  *)
(* a binding in the organization                                           *)
UnboundCells(campaignId, organizationId) ==
  {CampaignContacts[c].cell : c \in {d \in 1..Len(CampaignContacts) :
     /\ CampaignContacts[d].campaign_id = campaignId
     /\ Bindings(CampaignContacts[d].cell, organizationId) = {}}}

(* message-sending.js 165-192 *)
BulkSelect(campaignId, organizationId) ==
  /\ bulk.pc = "idle"
  /\ bulk.calls < MaxCalls
  /\ IF DEFAULT_SERVICE = "fakeservice" \/ UnboundCells(campaignId, organizationId) = {}
       THEN bulk' = [IdleBulk EXCEPT !.pc = "commit", !.calls = bulk.calls + 1,
                                     !.campaignId = campaignId,
                                     !.organizationId = organizationId]
       ELSE \E cells \in Orders(UnboundCells(campaignId, organizationId)) :
              bulk' = [IdleBulk EXCEPT !.pc = "candidates", !.cells = cells,
                                       !.calls = bulk.calls + 1,
                                       !.campaignId = campaignId,
                                       !.organizationId = organizationId]
  /\ UNCHANGED <<messaging_service_stick, resolver, returned, DEFAULT_SERVICE,
                 assignVars, partsVars, importVars, senderVars, jobsVars>>

(* message-sending.js 194-197 *)
BulkCandidates(organizationId) ==
  /\ bulk.pc = "candidates"
  /\ bulk.organizationId = organizationId
  /\ \E candidateServices \in getMessagingServiceCandidates(organizationId) :
       bulk' = [bulk EXCEPT !.candidateServices = candidateServices,
                            !.pc = IF Len(candidateServices) = 0 THEN "commit"
                                   ELSE "insert"]
  /\ UNCHANGED <<messaging_service_stick, resolver, returned, DEFAULT_SERVICE,
                 assignVars, partsVars, importVars, senderVars, jobsVars>>

(* message-sending.js 201-208: cell[idx] gets candidate[idx % length]; the *)
(* rows stay uncommitted until the caller's transaction ends               *)
BulkInsert(organizationId) ==
  /\ bulk.pc = "insert"
  /\ bulk.organizationId = organizationId
  /\ LET K == Len(bulk.candidateServices)
         toInsert == [idx \in 1..Len(bulk.cells) |->
                        [cell |-> bulk.cells[idx], organization_id |-> organizationId,
                         messaging_service_sid |->
                            bulk.candidateServices[((idx - 1) % K) + 1]]]
     IN  IF InsertStick(toInsert).ok
           THEN bulk' = [bulk EXCEPT !.pc = "commit", !.trx = toInsert]
           ELSE bulk' = [bulk EXCEPT !.pc = "idle", !.trx = <<>>]
  /\ UNCHANGED <<messaging_service_stick, resolver, returned, DEFAULT_SERVICE,
                 assignVars, partsVars, importVars, senderVars, jobsVars>>

\* jobs.js 254-258: the transaction of the caller commits
BulkCommit ==
  /\ bulk.pc = "commit"
  /\ messaging_service_stick' = messaging_service_stick \o bulk.trx
  /\ bulk' = [bulk EXCEPT !.pc = "idle", !.trx = <<>>]
  /\ UNCHANGED <<resolver, returned, DEFAULT_SERVICE, assignVars, partsVars, importVars, senderVars, jobsVars>>

\* the transaction of the caller is rolled back
BulkRollback ==
  /\ bulk.pc \in {"candidates", "insert", "commit"}
  /\ bulk' = [bulk EXCEPT !.pc = "idle", !.trx = <<>>,
                          !.cells = <<>>, !.candidateServices = <<>>]
  /\ UNCHANGED <<messaging_service_stick, resolver, returned, DEFAULT_SERVICE,
                 assignVars, partsVars, importVars, senderVars, jobsVars>>

assignMissingMessagingServices(campaignId, organizationId) ==
  \/ BulkSelect(campaignId, organizationId)
  \/ BulkCandidates(organizationId)
  \/ BulkInsert(organizationId)
  \/ BulkCommit
  \/ BulkRollback

StickyIdle ==
  /\ messaging_service_stick = <<>>
  /\ resolver = [p \in Resolvers |-> IdleResolver]
  /\ bulk = IdleBulk
  /\ returned = {}
  /\ DEFAULT_SERVICE = "twilio"

(***************************************************************************)
(* The warehouse import: loadContactsFromDataWarehouse (jobs.js 585-664)   *)
(* and loadContactsFromDataWarehouseFragment (jobs.js 366-583).            *)
(*                                                                         *)
(* A statement is kept as the parts its text is made of: the first word,   *)
(* the selected columns, the table, whether it holds a semicolon, its      *)
(* LIMIT clauses in the order of the text (each with the spelling of the   *)
(* keyword) and its OFFSET (0: none).  The code's string operations are    *)
(* translated on these parts.                                              *)
(***************************************************************************)
STEP == 2             \* the page size of jobs.js 621-624 (10 or 10000), scaled down
MaxRows == 5          \* the rows of the warehouse table
MaxDeliveries == 2    \* deliveries of fragment descriptors by the external executor

Executors == {1, 2}   \* 1 runs loadContactsFromDataWarehouse; both take deliveries
RequiredColumns == {"first_name", "last_name", "cell"}

Statement(verb, columns, table, semicolon, limits) ==
  [verb |-> verb, columns |-> columns, table |-> table, semicolon |-> semicolon,
   limits |-> limits, offset |-> 0]

Payloads ==
  {Statement("SELECT", RequiredColumns, "people", FALSE, <<>>),
   Statement("SELECT", {"first_name", "last_name"}, "people", FALSE, <<>>),
   Statement("SELECT", RequiredColumns, "people", FALSE, <<[kw |-> "LIMIT", n |-> 50]>>),
   Statement("SELECT", RequiredColumns, "people", FALSE, <<[kw |-> "limit", n |-> 50]>>),
   Statement("SELECT", RequiredColumns, "nosuchtable", FALSE, <<>>),
   Statement("SELECT", RequiredColumns, "people", TRUE, <<>>),
   Statement("DELETE", {}, "people", FALSE, <<>>)}

\* sqlQuery.startsWith("SELECT")
StartsWithSELECT(sqlQuery) == sqlQuery.verb = "SELECT"

\* sqlQuery.indexOf(";") >= 0
HasSemicolon(sqlQuery) == sqlQuery.semicolon

\* /LIMIT/.test(sqlQuery): the regular expression is case-sensitive
TestLIMIT_Never(sqlQuery) == FALSE
TestLIMIT(sqlQuery) ==
  \E k \in 1..Len(sqlQuery.limits) : sqlQuery.limits[k].kw = "LIMIT"

\* sqlQuery += " LIMIT " + jobEvent.limit; sqlQuery += " OFFSET " + jobEvent.offset
FragmentQuery(jobEvent) ==
  LET limited == IF jobEvent.limit # 0
                 THEN [jobEvent.query EXCEPT
                         !.limits = Append(@, [kw |-> "LIMIT", n |-> jobEvent.limit])]
                 ELSE jobEvent.query
  IN  IF jobEvent.offset # 0 THEN [limited EXCEPT !.offset = jobEvent.offset]
      ELSE limited

(***************************************************************************)
(* The warehouse: warehouseConnection.raw raises on an unknown table and   *)
(* on a statement with two LIMIT clauses (SQL keywords are                 *)
(* case-insensitive); otherwise it returns the selected columns and the    *)
(* rows after OFFSET and LIMIT.                                            *)
(***************************************************************************)
Raises(sqlQuery) ==
  sqlQuery.table = "nosuchtable" \/ Len(sqlQuery.limits) > 1

raw(sqlQuery, table) ==
  LET from == sqlQuery.offset + 1
      upto == IF sqlQuery.limits = <<>> THEN Len(table)
              ELSE Min(Len(table), sqlQuery.offset + sqlQuery.limits[1].n)
  IN  [fields |-> sqlQuery.columns, rows |-> SubSeq(table, from, upto)]

\* SELECT COUNT(*) FROM ( sqlQuery ) AS QUERYCOUNT
CountQuery(sqlQuery, table) == Len(raw(sqlQuery, table).rows)

\* a page count rounded down
Ceil_Floor(a, b) == a \div b

\* Math.ceil(knexCount / STEP)
Ceil(a, b) == (a + b - 1) \div b

(***************************************************************************)
(* Cells are strings, kept as sequences of characters.  The warehouse      *)
(* holds ten-digit numbers and one number too short to be valid.           *)
(***************************************************************************)
RawCell(d) == [k \in 1..10 |-> IF k = 10 THEN d ELSE "5"]
ShortCell == <<"5", "5", "5">>
RawCells == {RawCell("1"), RawCell("2"), ShortCell}

\* lib/phone-format.js: a valid number in E.164 form (12 characters), else ""
getFormattedPhoneNumber(cell) ==
  IF Len(cell) = 10 THEN <<"+", "1">> \o cell ELSE <<>>

opt_out == {[cell |-> getFormattedPhoneNumber(RawCell("2")), organization_id |-> 1],
            [cell |-> getFormattedPhoneNumber(RawCell("1")), organization_id |-> 2]}

OPTOUTS_SHARE_ALL_ORGS == FALSE

getOptOutSubQuery(orgId) ==
  IF OPTOUTS_SHARE_ALL_ORGS THEN {o.cell : o \in opt_out}
  ELSE {o.cell : o \in {x \in opt_out : x.organization_id = orgId}}

(***************************************************************************)
(* The three cleanup passes, jobs.js 501-555.                              *)
(***************************************************************************)
DeleteOptOutCells(pool, orgId, campaignId) ==
  {c \in pool : ~(c.cell \in getOptOutSubQuery(orgId) /\ c.campaign_id = campaignId)}

DeleteInvalidCells(pool, campaignId) ==
  {c \in pool : ~(Len(c.cell) # 12 /\ c.campaign_id = campaignId)}

\* the ids selected by the self join: a row of the campaign that has a row
\* c2 of the same campaign and cell with c2.id > id
DuplicateIds(pool, campaignId) ==
  {c.id : c \in {x \in pool :
                   /\ x.campaign_id = campaignId
                   /\ \E c2 \in pool : /\ c2.campaign_id = x.campaign_id
                                       /\ c2.cell = x.cell
                                       /\ c2.id > x.id}}

DeleteDuplicateCells_OnePerRun(pool, campaignId) ==
  LET ids == DuplicateIds(pool, campaignId)
  IN  {c \in pool : ~(c.id \in ids /\ \A i \in ids : c.id <= i)}
DeleteDuplicateCells(pool, campaignId) ==
  {c \in pool : c.id \notin DuplicateIds(pool, campaignId)}

CleanupPasses(pool, orgId, campaignId) ==
  DeleteDuplicateCells(
    DeleteInvalidCells(DeleteOptOutCells(pool, orgId, campaignId), campaignId),
    campaignId)

(***************************************************************************)
(* Processes.                                                              *)
(***************************************************************************)
NoJob == [exists |-> FALSE, status |-> 0, result_message |-> <<>>]
NoEvent == [query |-> Statement("", {}, "", FALSE, <<>>), totalParts |-> 0,
            part |-> 0, offset |-> 0, limit |-> 0]
IdleFragment == [pc |-> "idle", last |-> "", jobEvent |-> NoEvent, rows |-> <<>>,
                 redelivered |-> FALSE]
IdleLoader == [pc |-> "idle", last |-> "", payload |-> NoEvent.query]

ImportIdle ==
  /\ campaign_contact = {}
  /\ nextContactId = 1
  /\ job_request = NoJob
  /\ warehouse = <<>>
  /\ loader = IdleLoader
  /\ fragment = [e \in Executors |-> IdleFragment]
  /\ lambda = {}
  /\ deliveries = 0
  /\ WAREHOUSE_DB_LAMBDA_ITERATION = FALSE
  /\ processed = {}
  /\ import0 = campaign_contact

\* the fragment returns (or throws): its locals are gone
Return(e, outcome) == [fragment EXCEPT ![e] = [IdleFragment EXCEPT !.last = outcome]]

(***************************************************************************)
(* loadContactsFromDataWarehouse, jobs.js 585-663, up to the first await   *)
(* of the fragment it calls.  job.id is the id of the job row, a serial,   *)
(* hence truthy; the data warehouse is configured.                         *)
(***************************************************************************)
JobMessages(sqlQuery, table) ==
  IF Raises(sqlQuery) THEN <<"Data warehouse count query failed">>
  ELSE LET knexCount == CountQuery(sqlQuery, table)
           totalParts == Ceil(knexCount, STEP)
       IN  (IF knexCount = 0
            THEN <<"Error: Data warehouse query returned zero results">>
            ELSE <<>>)
           \o (IF totalParts > 1 /\ TestLIMIT(sqlQuery)
               THEN <<"Error: LIMIT in query not supported for results larger than STEP">>
               ELSE <<>>)

loadContactsFromDataWarehouse ==
  /\ loader.pc = "ready"
  /\ LET sqlQuery == loader.payload
         jobMessages == JobMessages(sqlQuery, warehouse)
         knexCount == CountQuery(sqlQuery, warehouse)
         totalParts == Ceil(knexCount, STEP)
     IN  IF ~StartsWithSELECT(sqlQuery) \/ HasSemicolon(sqlQuery)
         THEN /\ loader' = [loader EXCEPT !.pc = "done", !.last = "malformed"]
              /\ UNCHANGED <<campaign_contact, job_request, fragment>>
         ELSE IF jobMessages # <<>>
         THEN /\ loader' = [loader EXCEPT !.pc = "done", !.last = "resultMessages"]
              /\ job_request' = IF job_request.exists
                                THEN [job_request EXCEPT !.result_message = jobMessages]
                                ELSE job_request
              /\ UNCHANGED <<campaign_contact, fragment>>
         ELSE /\ loader' = [loader EXCEPT !.pc = "fragment"]
              /\ campaign_contact' = {c \in campaign_contact : c.campaign_id # cid}
              /\ fragment' = [fragment EXCEPT ![1] =
                   [IdleFragment EXCEPT !.pc = "check",
                      !.jobEvent = [query |-> sqlQuery, totalParts |-> totalParts,
                                    part |-> 0, offset |-> 0,
                                    limit |-> IF totalParts > 1 THEN STEP ELSE 0]]]
              /\ UNCHANGED job_request
  /\ UNCHANGED <<nextContactId, warehouse, lambda, deliveries,
                 WAREHOUSE_DB_LAMBDA_ITERATION, processed, import0,
                 assignVars, partsVars, stickyVars, senderVars, jobsVars>>

(***************************************************************************)
(* loadContactsFromDataWarehouseFragment, one action per await.            *)
(***************************************************************************)
\* jobs.js 377-390: the job row is read; a missing row ends the fragment
JobExists_Always == TRUE
JobExists == job_request.exists

FragmentStart(e) ==
  /\ fragment[e].pc = "check"
  /\ fragment' = IF JobExists THEN [fragment EXCEPT ![e].pc = "query"]
                 ELSE Return(e, "alreadyComplete")
  /\ UNCHANGED <<campaign_contact, nextContactId, job_request, warehouse, loader,
                 lambda, deliveries, WAREHOUSE_DB_LAMBDA_ITERATION, processed, import0,
                 assignVars, partsVars, stickyVars, senderVars, jobsVars>>

\* jobs.js 392-438: the warehouse query and the required columns.  Both
\* failures reach a jobMessages.push (410, 434) on a name the function does
\* not declare (the array is at jobEvent.jobMessages): a ReferenceError
\* leaves the fragment and its caller.
FragmentQueryStep(e) ==
  /\ fragment[e].pc = "query"
  /\ LET sqlQuery == FragmentQuery(fragment[e].jobEvent)
         knexResult == raw(sqlQuery, warehouse)
     IN  fragment' =
           IF Raises(sqlQuery) THEN Return(e, "ReferenceError")
           ELSE IF ~(RequiredColumns \subseteq knexResult.fields)
           THEN Return(e, "ReferenceError")
           ELSE [fragment EXCEPT ![e].pc = "save", ![e].rows = knexResult.rows]
  /\ UNCHANGED <<campaign_contact, nextContactId, job_request, warehouse, loader,
                 lambda, deliveries, WAREHOUSE_DB_LAMBDA_ITERATION, processed, import0,
                 assignVars, partsVars, stickyVars, senderVars, jobsVars>>

\* jobs.js 440-477: the rows become contacts, the progress counter moves
SavePortion(rows, first) ==
  {[id |-> first + k - 1, campaign_id |-> cid,
    cell |-> getFormattedPhoneNumber(rows[k])] : k \in 1..Len(rows)}

FragmentSave(e) ==
  /\ fragment[e].pc = "save"
  /\ campaign_contact' = campaign_contact \cup SavePortion(fragment[e].rows, nextContactId)
  /\ nextContactId' = nextContactId + Len(fragment[e].rows)
  /\ job_request' = IF job_request.exists
                    THEN [job_request EXCEPT !.status = @ + 1]
                    ELSE job_request
  /\ processed' = processed \cup {fragment[e].jobEvent.part}
  /\ fragment' = [fragment EXCEPT ![e].pc = "completed", ![e].rows = <<>>,
                                  ![e].redelivered =
                                    fragment[e].jobEvent.part \in processed]
  /\ UNCHANGED <<warehouse, loader, lambda, deliveries,
                 WAREHOUSE_DB_LAMBDA_ITERATION, import0,
                 assignVars, partsVars, stickyVars, senderVars, jobsVars>>

\* a continuation that keeps the offset of the fragment before it
NextFragment_NoOffset(jobEvent) ==
  [jobEvent EXCEPT !.part = jobEvent.part + 1, !.limit = STEP]

\* jobs.js 479-582: the job row is read again; cleanup, continuation or nothing
NextFragment(jobEvent) ==
  [jobEvent EXCEPT !.part = jobEvent.part + 1,
                   !.offset = (jobEvent.part + 1) * STEP,
                   !.limit = STEP]

FragmentFinish(e) ==
  /\ fragment[e].pc = "completed"
  /\ LET jobEvent == fragment[e].jobEvent
     IN  IF ~job_request.exists
         THEN /\ fragment' = Return(e, "deleted")
              /\ UNCHANGED <<campaign_contact, job_request, lambda>>
         ELSE IF jobEvent.totalParts # 0 /\ job_request.status >= jobEvent.totalParts
         THEN /\ campaign_contact' = CleanupPasses(campaign_contact, 1, cid)
              /\ job_request' = NoJob
              /\ fragment' = Return(e, "completed")
              /\ UNCHANGED lambda
         ELSE IF jobEvent.part < jobEvent.totalParts - 1
         THEN IF WAREHOUSE_DB_LAMBDA_ITERATION
              THEN /\ lambda' = lambda \cup {NextFragment(jobEvent)}
                   /\ fragment' = Return(e, "invokedAgain")
                   /\ UNCHANGED <<campaign_contact, job_request>>
              ELSE /\ fragment' = [fragment EXCEPT ![e] =
                        [IdleFragment EXCEPT !.pc = "check",
                                             !.jobEvent = NextFragment(jobEvent)]]
                   /\ UNCHANGED <<campaign_contact, job_request, lambda>>
         ELSE /\ fragment' = Return(e, "undefined")
              /\ UNCHANGED <<campaign_contact, job_request, lambda>>
  /\ UNCHANGED <<nextContactId, warehouse, loader, deliveries,
                 WAREHOUSE_DB_LAMBDA_ITERATION, processed, import0,
                 assignVars, partsVars, stickyVars, senderVars, jobsVars>>

loadContactsFromDataWarehouseFragment(e) ==
  \/ FragmentStart(e)
  \/ FragmentQueryStep(e)
  \/ FragmentSave(e)
  \/ FragmentFinish(e)

\* the external executor delivers a descriptor it was handed, at least once
Deliver(e) ==
  /\ fragment[e].pc = "idle"
  /\ deliveries < MaxDeliveries
  /\ \E jobEvent \in lambda :
       fragment' = [fragment EXCEPT ![e] =
                      [IdleFragment EXCEPT !.pc = "check", !.jobEvent = jobEvent]]
  /\ deliveries' = deliveries + 1
  /\ UNCHANGED <<campaign_contact, nextContactId, job_request, warehouse, loader,
                 lambda, WAREHOUSE_DB_LAMBDA_ITERATION, processed, import0,
                 assignVars, partsVars, stickyVars, senderVars, jobsVars>>

\* cancellation: somebody deletes the job row
CancelJob ==
  /\ loader.pc # "idle"
  /\ job_request.exists
  /\ job_request' = NoJob
  /\ UNCHANGED <<campaign_contact, nextContactId, warehouse, loader, fragment,
                 lambda, deliveries, WAREHOUSE_DB_LAMBDA_ITERATION, processed, import0,
                 assignVars, partsVars, stickyVars, senderVars, jobsVars>>

(***************************************************************************)
(* The outbound sender loop: sendMessages, jobs.js 1452-1510.              *)
(* outbound is the committed send_status of the queued rows of message;    *)
(* a sender is a process calling sendMessages, with its own pastMessages.  *)
(* The statement of 1461-1469 is a plain SELECT ... FOR UPDATE: it waits   *)
(* for the rows another transaction has locked, and goes on with the rows  *)
(* that are still QUEUED once the lock is released.  The name knex is not  *)
(* bound by the file (its imports, 1-33, bind r): whether the runtime has  *)
(* a global of that name is a choice of the initial state.                 *)
(***************************************************************************)
MaxMessages == 2      \* the outbound rows of message
MaxSendCalls == 2     \* calls of sendMessages per sender

Senders == {1, 2}
NoSender == 0

IdleSender == [pc |-> "idle", last |-> "none", messages |-> <<>>, index |-> 1,
               wrote |-> {}, pastMessages |-> <<>>, calls |-> 0]

SenderIdle ==
  /\ outbound = <<>>
  /\ rowLock = <<>>
  /\ sender = [w \in Senders |-> IdleSender]
  /\ dispatched = {}
  /\ knexBound = FALSE

\* the function returns: the locals are gone, pastMessages stays
SenderReturns(w, outcome) ==
  [sender EXCEPT ![w] = [IdleSender EXCEPT !.last = outcome,
                                           !.pastMessages = sender[w].pastMessages,
                                           !.calls = sender[w].calls]]

\* the end of a transaction releases its row locks
Released(w) == [m \in DOMAIN rowLock |-> IF rowLock[m] = w THEN NoSender ELSE rowLock[m]]

\* where send_status = 'QUEUED' order by created_at
Queued == {m \in DOMAIN outbound : outbound[m] = "QUEUED"}

RECURSIVE InOrder(_)
InOrder(S) ==
  IF S = {} THEN <<>>
  ELSE LET m == CHOOSE a \in S : \A b \in S : a <= b
       IN  <<m>> \o InOrder(S \ {m})

\* the queued rows another transaction has locked
LockedByOther(w) == {m \in Queued : rowLock[m] \notin {NoSender, w}}

\* pastMessages.slice(-100)
Slice100(s) == IF Len(s) <= 100 THEN s ELSE SubSeq(s, Len(s) - 99, Len(s))

(* jobs.js 1456-1458 and 1506-1509: the call; without a binding of knex the
   ReferenceError is caught and logged by the outer catch *)
SendBegin(w) ==
  /\ sender[w].pc = "idle"
  /\ sender[w].calls < MaxSendCalls
  /\ sender' = IF knexBound
               THEN [sender EXCEPT ![w].pc = "select", ![w].calls = @ + 1]
               ELSE [SenderReturns(w, "transaction errored") EXCEPT ![w].calls = @ + 1]
  /\ UNCHANGED <<outbound, rowLock, dispatched, knexBound,
                 assignVars, partsVars, stickyVars, importVars, jobsVars>>

(* jobs.js 1461-1469: the claim; with a row locked by another transaction
   the statement waits *)
SendSelect(w) ==
  /\ sender[w].pc \in {"select", "waiting"}
  /\ IF LockedByOther(w) # {}
     THEN /\ sender[w].pc = "select"
          /\ sender' = [sender EXCEPT ![w].pc = "waiting"]
          /\ UNCHANGED rowLock
     ELSE /\ sender' = [sender EXCEPT ![w].pc = "send", ![w].index = 1,
                                      ![w].messages = InOrder(Queued)]
          /\ rowLock' = [m \in DOMAIN rowLock |->
                           IF m \in Queued THEN w ELSE rowLock[m]]
  /\ UNCHANGED <<outbound, dispatched, knexBound,
                 assignVars, partsVars, stickyVars, importVars, jobsVars>>

(* jobs.js 1470-1475: the statement fails (a lock timeout set on the
   database fires while it waits): rollback and a quiet return *)
SendSelectFails(w) ==
  /\ sender[w].pc = "waiting"
  /\ sender' = SenderReturns(w, "graceful")
  /\ rowLock' = Released(w)
  /\ UNCHANGED <<outbound, dispatched, knexBound,
                 assignVars, partsVars, stickyVars, importVars, jobsVars>>

\* the carrier adapter, sendMessage(message, trx) -> ok | error: ok hands the
\* message to the carrier and marks the row SENT through the transaction
sendMessageOk(w, m) ==
  /\ dispatched' = dispatched \cup {<<w, m>>}
  /\ sender' = [sender EXCEPT ![w].index = @ + 1,
                              ![w].wrote = @ \cup {m},
                              ![w].pastMessages = Slice100(Append(@, m))]

(* jobs.js 1478-1497 and 1500-1504: one iteration of the loop; a message of
   pastMessages and an adapter error end in the rollback of the catch *)
SendDispatch(w) ==
  /\ sender[w].pc = "send"
  /\ sender[w].index <= Len(sender[w].messages)
  /\ LET m == sender[w].messages[sender[w].index]
     IN  IF \E j \in 1..Len(sender[w].pastMessages) : sender[w].pastMessages[j] = m
         THEN /\ sender' = SenderReturns(w, "error sending messages")
              /\ rowLock' = Released(w)
              /\ UNCHANGED dispatched
         ELSE \/ /\ sendMessageOk(w, m)
                 /\ UNCHANGED rowLock
              \/ /\ sender' = SenderReturns(w, "error sending messages")
                 /\ rowLock' = Released(w)
                 /\ UNCHANGED dispatched
  /\ UNCHANGED <<outbound, knexBound,
                 assignVars, partsVars, stickyVars, importVars, jobsVars>>

(* jobs.js 1499: every message of the batch was dispatched *)
SendCommit(w) ==
  /\ sender[w].pc = "send"
  /\ sender[w].index > Len(sender[w].messages)
  /\ outbound' = [m \in DOMAIN outbound |->
                    IF m \in sender[w].wrote THEN "SENT" ELSE outbound[m]]
  /\ rowLock' = Released(w)
  /\ sender' = SenderReturns(w, "committed")
  /\ UNCHANGED <<dispatched, knexBound,
                 assignVars, partsVars, stickyVars, importVars, jobsVars>>

sendMessages(w) ==
  \/ SendBegin(w)
  \/ SendSelect(w)
  \/ SendSelectFails(w)
  \/ SendDispatch(w)
  \/ SendCommit(w)

(***************************************************************************)
(* The job records of uploadContacts, jobs.js 173-364, and exportCampaign, *)
(* jobs.js 1304-1450.  The contacts of the uploaded campaign are counted,  *)
(* not listed, and a chunk of the model holds one contact.  updateJob and  *)
(* the statements on job_request run outside the transaction of the        *)
(* upload, so they are committed at once.                                  *)
(***************************************************************************)
MaxChunks == 3            \* contacts (chunks) of an upload payload
BATCH_SIZE == 2           \* jobs.js 36: chunks inserted at once
MaxProgressUpdates == 2   \* calls of onProgressUpdate during one lookup

\* Math.round(percentComplete * 100) for the fractions the lookup reports
ProgressValues == {0, 50, 100}

\* deleteJob retries while retries < 5
MaxDeleteRetries == 5

\* Math.round((a / b) * 100) for 0 <= a and 0 < b
RoundPercent(a, b) == (200 * a + b) \div (2 * b)

\* workers/lib updateJob on a job row: record the progress, if the row is there
updateJobRequest(row, percent) ==
  IF row.exists THEN [row EXCEPT !.status = percent] ELSE row

IdleUploader == [pc |-> "idle", last |-> "none",
                 payload |-> [contacts |-> 0, filterOutLandlines |-> FALSE,
                              excludeCampaignIds |-> FALSE],
                 numbersApiKey |-> FALSE, maxContacts |-> 0,
                 contactChunks |-> 0, chunksCompleted |-> 0,
                 shouldRemoveLandlines |-> FALSE, rows |-> 0,
                 resultMessages |-> <<>>, updates |-> 0, batches |-> 0]

IdleExporter == [pc |-> "idle", last |-> "none", validConfig |-> FALSE,
                 retries |-> 0, email |-> "none"]

\* jobs.js 115-171: processSqsMessages.  Messages is the list of the bodies of
\* the received messages; promise is the state of the promise the call returns
MaxSqsMessages == 3   \* MaxNumberOfMessages of the receive call, 10 in the code

IdlePoller == [pc |-> "idle", TWILIO_SQS_QUEUE_URL |-> TRUE, result |-> "none",
               Messages |-> <<>>, i |-> 1, handled |-> <<>>,
               deleting |-> {}, deleted |-> {}, promise |-> "pending"]

JobsIdle ==
  /\ uploadJob = NoJob
  /\ uploadedContacts = 0
  /\ uploader = IdleUploader
  /\ exportJob = NoJob
  /\ exporter = IdleExporter
  /\ poller = IdlePoller

\* jobs.js 173-223: delete the contacts of the campaign (committed at once),
\* unpack the payload, cut it to maxContacts (0: no maximum)
UploadStart ==
  /\ uploader.pc = "ready"
  /\ uploadedContacts' = 0
  /\ uploader' = [uploader EXCEPT
       !.pc = "insert",
       !.shouldRemoveLandlines =
          uploader.payload.filterOutLandlines /\ uploader.numbersApiKey,
       !.contactChunks =
          IF uploader.maxContacts # 0
            THEN Min(uploader.payload.contacts, uploader.maxContacts)
            ELSE uploader.payload.contacts]
  /\ UNCHANGED <<uploadJob, exportJob, exporter, poller>>
  /\ UNCHANGED <<assignVars, partsVars, stickyVars, importVars, senderVars>>

\* jobs.js 232-259: one batch of chunks; every chunk of the batch computes its
\* percentComplete before the first insert of the batch has finished
UploadBatch ==
  /\ uploader.pc = "insert"
  /\ IF uploader.chunksCompleted >= uploader.contactChunks
       THEN /\ uploader' = [uploader EXCEPT
                 !.pc = IF uploader.shouldRemoveLandlines THEN "lookup" ELSE "optouts"]
            /\ uploadJob' = uploadJob
       ELSE LET size == Min(BATCH_SIZE, uploader.contactChunks - uploader.chunksCompleted)
                percentComplete ==
                  RoundPercent(uploader.chunksCompleted, uploader.contactChunks)
            IN  /\ uploader' = [uploader EXCEPT !.chunksCompleted = @ + size,
                                                !.rows = @ + size,
                                                !.batches = @ + 1]
                /\ uploadJob' = updateJobRequest(uploadJob, percentComplete)
  /\ UNCHANGED <<uploadedContacts, exportJob, exporter, poller>>
  /\ UNCHANGED <<assignVars, partsVars, stickyVars, importVars, senderVars>>

\* jobs.js 263-267: the landline lookup reports its progress
UploadProgress ==
  /\ uploader.pc = "lookup"
  /\ uploader.updates < MaxProgressUpdates
  /\ \E p \in ProgressValues :
       uploadJob' = updateJobRequest(uploadJob, 100 + p)
  /\ uploader' = [uploader EXCEPT !.updates = @ + 1]
  /\ UNCHANGED <<uploadedContacts, exportJob, exporter, poller>>
  /\ UNCHANGED <<assignVars, partsVars, stickyVars, importVars, senderVars>>

\* jobs.js 269-290: delete the landlines and the invalid numbers
UploadLandlines ==
  /\ uploader.pc = "lookup"
  /\ \E landlinesFilteredOut \in 0..Min(uploader.rows, 1) :
       uploader' = [uploader EXCEPT
         !.pc = "optouts",
         !.rows = @ - landlinesFilteredOut,
         !.resultMessages = Append(@, <<"landlines", landlinesFilteredOut>>)]
  /\ UNCHANGED <<uploadJob, uploadedContacts, exportJob, exporter, poller>>
  /\ UNCHANGED <<assignVars, partsVars, stickyVars, importVars, senderVars>>

\* jobs.js 292-306
UploadOptOuts ==
  /\ uploader.pc = "optouts"
  /\ \E deleteOptOutCells \in 0..Min(uploader.rows, 1) :
       uploader' = [uploader EXCEPT
         !.pc = "exclusions",
         !.rows = @ - deleteOptOutCells,
         !.resultMessages =
            IF deleteOptOutCells # 0
              THEN Append(@, <<"opt-out", deleteOptOutCells>>) ELSE @]
  /\ UNCHANGED <<uploadJob, uploadedContacts, exportJob, exporter, poller>>
  /\ UNCHANGED <<assignVars, partsVars, stickyVars, importVars, senderVars>>

\* jobs.js 308-347
UploadExclusions ==
  /\ uploader.pc = "exclusions"
  /\ \E exclusionCellCount \in
          0..(IF uploader.payload.excludeCampaignIds THEN Min(uploader.rows, 1) ELSE 0) :
       uploader' = [uploader EXCEPT
         !.pc = "commit",
         !.rows = @ - exclusionCellCount,
         !.resultMessages =
            IF exclusionCellCount # 0
              THEN Append(@, <<"exclusion", exclusionCellCount>>) ELSE @]
  /\ UNCHANGED <<uploadJob, uploadedContacts, exportJob, exporter, poller>>
  /\ UNCHANGED <<assignVars, partsVars, stickyVars, importVars, senderVars>>

\* jobs.js 225, 348: the transaction resolves and commits
UploadCommit ==
  /\ uploader.pc = "commit"
  /\ uploadedContacts' = uploader.rows
  /\ uploader' = [uploader EXCEPT !.pc = "finish"]
  /\ UNCHANGED <<uploadJob, exportJob, exporter, poller>>
  /\ UNCHANGED <<assignVars, partsVars, stickyVars, importVars, senderVars>>

\* jobs.js 350-364: record the result messages on the job row, or delete it
UploadFinish ==
  /\ uploader.pc = "finish"
  /\ uploadJob' =
       IF uploader.resultMessages # <<>>
         THEN IF uploadJob.exists
                THEN [uploadJob EXCEPT !.result_message = uploader.resultMessages]
                ELSE uploadJob
         ELSE NoJob
  /\ uploader' = [uploader EXCEPT !.pc = "done", !.last = "done"]
  /\ UNCHANGED <<uploadedContacts, exportJob, exporter, poller>>
  /\ UNCHANGED <<assignVars, partsVars, stickyVars, importVars, senderVars>>

\* jobs.js 244-247, 303-306, 342-345: a statement of the transaction throws;
\* the transaction rolls back and uploadContacts rejects
UploadFails ==
  /\ uploader.pc \in {"insert", "lookup", "optouts", "exclusions", "commit"}
  /\ uploader' = [uploader EXCEPT !.pc = "done", !.last = "failed", !.rows = 0]
  /\ UNCHANGED <<uploadJob, uploadedContacts, exportJob, exporter, poller>>
  /\ UNCHANGED <<assignVars, partsVars, stickyVars, importVars, senderVars>>

uploadContacts ==
  \/ UploadStart
  \/ UploadBatch
  \/ UploadProgress
  \/ UploadLandlines
  \/ UploadOptOuts
  \/ UploadExclusions
  \/ UploadCommit
  \/ UploadFinish
  \/ UploadFails

\* jobs.js 1326-1337: fetch the export data; on an error log it and return
ExportFetch ==
  /\ exporter.pc = "ready"
  /\ \/ exporter' = [exporter EXCEPT !.pc = "build"]
     \/ exporter' = [exporter EXCEPT !.pc = "done", !.last = "fetch error"]
  /\ UNCHANGED <<uploadJob, uploadedContacts, uploader, exportJob, poller>>
  /\ UNCHANGED <<assignVars, partsVars, stickyVars, importVars, senderVars>>

\* jobs.js 1339-1384: build the rows and the CSV payloads; errors are logged
ExportBuild ==
  /\ exporter.pc = "build"
  /\ exporter' = [exporter EXCEPT !.pc = "deliver"]
  /\ UNCHANGED <<uploadJob, uploadedContacts, uploader, exportJob, poller>>
  /\ UNCHANGED <<assignVars, partsVars, stickyVars, importVars, senderVars>>

\* jobs.js 1386-1441: upload to cloud storage and send the email; a failure of
\* the failure email is not caught
ExportDeliver ==
  /\ exporter.pc = "deliver"
  /\ IF exporter.validConfig
       THEN \/ exporter' = [exporter EXCEPT !.pc = "delete", !.email = "ready"]
            \/ exporter' = [exporter EXCEPT !.pc = "delete", !.email = "failed"]
            \/ exporter' = [exporter EXCEPT !.pc = "done", !.last = "threw"]
       ELSE exporter' = [exporter EXCEPT !.pc = "delete"]
  /\ UNCHANGED <<uploadJob, uploadedContacts, uploader, exportJob, poller>>
  /\ UNCHANGED <<assignVars, partsVars, stickyVars, importVars, senderVars>>

\* jobs.js 1304-1317, 1443-1449: delete the job row, trying again after a
\* failure while retries < 5
ExportDeleteJob ==
  /\ exporter.pc = "delete"
  /\ \/ /\ exportJob' = NoJob
        /\ exporter' = [exporter EXCEPT !.pc = "done", !.last = "done"]
     \/ /\ exportJob' = exportJob
        /\ exporter' =
             IF exporter.retries < MaxDeleteRetries
               THEN [exporter EXCEPT !.retries = @ + 1]
               ELSE [exporter EXCEPT !.pc = "done", !.last = "done"]
  /\ UNCHANGED <<uploadJob, uploadedContacts, uploader, poller>>
  /\ UNCHANGED <<assignVars, partsVars, stickyVars, importVars, senderVars>>

exportCampaign ==
  \/ ExportFetch
  \/ ExportBuild
  \/ ExportDeliver
  \/ ExportDeleteJob

\* the bodies a queue message can have: a JSON text or a text JSON.parse refuses
SqsBodies == {"json", "garbage"}

RECURSIVE SqsBatches(_)
SqsBatches(n) ==
  IF n = 0 THEN {<<>>}
  ELSE SqsBatches(n - 1) \cup
       {Append(q, b) : q \in {t \in SqsBatches(n - 1) : Len(t) = n - 1},
                       b \in SqsBodies}

\* jobs.js 121-141: without the queue URL the call returns a rejected promise;
\* otherwise it calls receiveMessage and the callback runs with an error, with
\* data that has no Messages member (a receive that found no message), or
\* with data.Messages.  Only the first and the last branch of the callback
\* settle the promise
ReceiveMessage ==
  /\ poller.pc = "idle"
  /\ IF ~poller.TWILIO_SQS_QUEUE_URL
       THEN poller' = [poller EXCEPT !.pc = "done", !.result = "nourl",
                                     !.promise = "rejected"]
       ELSE \/ poller' = [poller EXCEPT !.pc = "done", !.result = "error",
                                        !.promise = "rejected"]
            \/ poller' = [poller EXCEPT !.pc = "done", !.result = "absent"]
            \/ \E msgs \in SqsBatches(MaxSqsMessages) :
                 poller' = [poller EXCEPT !.pc = "loop", !.result = "messages",
                                          !.Messages = msgs, !.i = 1]
  /\ UNCHANGED <<uploadJob, uploadedContacts, uploader, exportJob, exporter>>
  /\ UNCHANGED <<assignVars, partsVars, stickyVars, importVars, senderVars>>

\* jobs.js 143-162: one message of the batch: parse the body, await the
\* carrier's handler, ask the queue to delete the message without waiting for
\* the answer.  A throw of JSON.parse or a rejection of the handler ends the
\* async callback; nothing catches it and the promise is not settled
HandleMessage ==
  /\ poller.pc = "loop"
  /\ poller.i <= Len(poller.Messages)
  /\ IF poller.Messages[poller.i] = "garbage"
       THEN poller' = [poller EXCEPT !.pc = "done"]
       ELSE \/ poller' = [poller EXCEPT !.pc = "done"]
            \/ poller' = [poller EXCEPT !.handled = Append(@, poller.i),
                                        !.deleting = @ \cup {poller.i},
                                        !.i = @ + 1]
  /\ UNCHANGED <<uploadJob, uploadedContacts, uploader, exportJob, exporter>>
  /\ UNCHANGED <<assignVars, partsVars, stickyVars, importVars, senderVars>>

\* jobs.js 163: resolve() after the loop
ResolveBatch ==
  /\ poller.pc = "loop"
  /\ poller.i > Len(poller.Messages)
  /\ poller' = [poller EXCEPT !.pc = "done", !.promise = "resolved"]
  /\ UNCHANGED <<uploadJob, uploadedContacts, uploader, exportJob, exporter>>
  /\ UNCHANGED <<assignVars, partsVars, stickyVars, importVars, senderVars>>

\* jobs.js 154-160: the answer of a deleteMessage; an error is only logged
DeleteMessageCallback ==
  /\ \E d \in poller.deleting :
       \/ poller' = [poller EXCEPT !.deleting = @ \ {d}, !.deleted = @ \cup {d}]
       \/ poller' = [poller EXCEPT !.deleting = @ \ {d}]
  /\ UNCHANGED <<uploadJob, uploadedContacts, uploader, exportJob, exporter>>
  /\ UNCHANGED <<assignVars, partsVars, stickyVars, importVars, senderVars>>

processSqsMessages ==
  \/ ReceiveMessage
  \/ HandleMessage
  \/ ResolveBatch
  \/ DeleteMessageCallback

(***************************************************************************)
(* Initial stores.  Contacts of one kind are interchangeable, so the       *)
(* initial contacts of the campaign are listed in nondecreasing kind.      *)
(* Assignment 1 is user 1's in the campaign (it may have no contact: a     *)
(* re-upload, jobs.js 183-186, deletes the contacts and keeps it);         *)
(* assignment 2 is user 2's in the other campaign.                         *)
(***************************************************************************)
ContactKinds ==
  <<[message_status |-> "needsMessage", assignment_id |-> NoAssignment, archived |-> FALSE],
    [message_status |-> "needsMessage", assignment_id |-> 1, archived |-> FALSE],
    [message_status |-> "messaged", assignment_id |-> 1, archived |-> FALSE],
    [message_status |-> "needsMessage", assignment_id |-> NoAssignment, archived |-> TRUE]>>

Row(camp, kind) ==
  [campaign_id |-> camp, message_status |-> kind.message_status,
   assignment_id |-> kind.assignment_id, archived |-> kind.archived]

OtherContacts ==
  (NumContacts + 1 :> [campaign_id |-> OtherCampaign, message_status |-> "needsMessage",
                       assignment_id |-> 2, archived |-> FALSE])
  @@ (NumContacts + 2 :> [campaign_id |-> OtherCampaign, message_status |-> "needsMessage",
                          assignment_id |-> NoAssignment, archived |-> FALSE])

InitStore(dyn, eMax, aMax, kinds) ==
  /\ campaign = (cid :> [use_dynamic_assignment |-> dyn, is_archived |-> FALSE])
                @@ (OtherCampaign :> [use_dynamic_assignment |-> FALSE, is_archived |-> FALSE])
  /\ envMax = eMax
  /\ contact = [c \in 1..NumContacts |-> Row(cid, ContactKinds[kinds[c]])] @@ OtherContacts
  /\ assignment = {[id |-> 1, campaign_id |-> cid, user_id |-> 1, max_contacts |-> aMax],
                   [id |-> 2, campaign_id |-> OtherCampaign, user_id |-> 2,
                    max_contacts |-> NULL]}
  /\ nextAssignmentId = 3
  /\ job = [r \in Runs |-> [exists |-> TRUE, progress |-> 0]]
  /\ run = [r \in Runs |-> IdleRun]
  /\ tx = [r \in Runs |-> EmptyTx]
  /\ db0 = [contact |-> contact, assignment |-> assignment]
  /\ PartsIdle
  /\ StickyIdle
  /\ ImportIdle
  /\ SenderIdle
  /\ JobsIdle

Init ==
  \E dyn \in BOOLEAN, eMax \in {NULL, 1}, aMax \in {NULL, 1},
     kinds \in [1..NumContacts -> 1..Len(ContactKinds)] :
    /\ \A c \in 1..(NumContacts - 1) : kinds[c] <= kinds[c + 1]
    /\ aMax = (IF dyn THEN 1 ELSE NULL)
    /\ ~dyn => eMax = NULL
    /\ InitStore(dyn, eMax, aMax, kinds)

(***************************************************************************)
(* The rosters of a job payload: entries {id, needsMessageCount,           *)
(* contactsCount, maxContacts}; a texter may be named twice.               *)
(***************************************************************************)
Entries ==
  [id : Users, needsMessageCount : 0..MaxNeed, contactsCount : 0..(MaxNeed + 1),
   maxContacts : {NULL, 1}]

EntryOk(e, dyn) ==
  /\ e.contactsCount >= e.needsMessageCount
  /\ e.contactsCount <= e.needsMessageCount + 1
  /\ e.contactsCount > e.needsMessageCount => e.id = 1
  /\ dyn => (e.contactsCount = e.needsMessageCount /\ e.needsMessageCount <= 1)
  /\ ~dyn => e.maxContacts = NULL

Rosters(dyn) ==
  {<<e>> : e \in {f \in Entries : EntryOk(f, dyn)}}
  \cup {<<e1, e2>> : e1 \in {f \in Entries : EntryOk(f, dyn)},
                     e2 \in {f \in Entries : EntryOk(f, dyn)}}

\* a worker picks up an assignTexters job; its payload is any roster
StartJob(r) ==
  /\ run[r].pc = "idle"
  /\ \E t \in Rosters(Dynamic) : Start(r, t)

Next ==
  \/ StartJob(1)
  \/ assignTexters(1)

Spec == Init /\ [][Next]_vars

(***************************************************************************)
(* Two workers reconcile the same campaign at once.  Their payloads name   *)
(* each texter at most once and carry no client/server skew; the second    *)
(* worker's payload names one texter; no contact is archived.              *)
(***************************************************************************)
RostersPlain(dyn, r) ==
  {t \in Rosters(dyn) :
     /\ \A i \in 1..Len(t) : t[i].contactsCount = t[i].needsMessageCount
     /\ Len(t) = 2 => (t[1].id < t[2].id /\ r = 1)}

StartJobPlain(r) ==
  /\ run[r].pc = "idle"
  /\ \E t \in RostersPlain(Dynamic, r) : Start(r, t)

NextConcurrent ==
  \/ \E r \in Runs : StartJobPlain(r)
  \/ \E r \in Runs : assignTexters(r)

InitConcurrent ==
  \E dyn \in BOOLEAN, kinds \in [1..NumContacts -> 1..(Len(ContactKinds) - 1)] :
    /\ \A c \in 1..(NumContacts - 1) : kinds[c] <= kinds[c + 1]
    /\ InitStore(dyn, NULL, IF dyn THEN 1 ELSE NULL, kinds)

SpecConcurrent == InitConcurrent /\ [][NextConcurrent]_vars

(***************************************************************************)
(* The scenarios of a standard-mode campaign of 100 needsMessage contacts: *)
(* all unassigned (texter 2 has no assignment), or the last 10 assigned to *)
(* texter 1.  One more unassigned contact belongs to the other campaign.   *)
(* The payload names one texter or both.                                   *)
(***************************************************************************)
ScenarioContacts(held) ==
  [c \in 1..100 |->
     [campaign_id |-> cid, message_status |-> "needsMessage",
      assignment_id |-> IF c > 100 - held THEN 1 ELSE NoAssignment,
      archived |-> FALSE]]
  @@ (101 :> [campaign_id |-> OtherCampaign, message_status |-> "needsMessage",
              assignment_id |-> NoAssignment, archived |-> FALSE])

InitScenario ==
  \E held \in {0, 10} :
    /\ campaign = (cid :> [use_dynamic_assignment |-> FALSE, is_archived |-> FALSE])
                  @@ (OtherCampaign :> [use_dynamic_assignment |-> FALSE,
                                        is_archived |-> FALSE])
    /\ envMax = NULL
    /\ contact = ScenarioContacts(held)
    /\ assignment = {[id |-> 1, campaign_id |-> cid, user_id |-> 1, max_contacts |-> NULL],
                     [id |-> 2, campaign_id |-> OtherCampaign, user_id |-> 2,
                      max_contacts |-> NULL]}
    /\ nextAssignmentId = 3
    /\ job = [r \in Runs |-> [exists |-> TRUE, progress |-> 0]]
    /\ run = [r \in Runs |-> IdleRun]
    /\ tx = [r \in Runs |-> EmptyTx]
    /\ db0 = [contact |-> contact, assignment |-> assignment]
  /\ PartsIdle
  /\ StickyIdle
  /\ ImportIdle
  /\ SenderIdle
  /\ JobsIdle

ScenarioEntries ==
  {[id |-> u, needsMessageCount |-> n, contactsCount |-> n, maxContacts |-> NULL] :
     u \in Users, n \in {0, 4, 10, 40, 100}}

RostersScenario ==
  {<<e>> : e \in ScenarioEntries}
  \cup {<<e1, e2>> : e1 \in {e \in ScenarioEntries : e.id = 2},
                     e2 \in {e \in ScenarioEntries : e.id = 1}}

StartJobScenario(r) ==
  /\ run[r].pc = "idle"
  /\ \E t \in RostersScenario : Start(r, t)

NextScenario ==
  \/ StartJobScenario(1)
  \/ assignTexters(1)

SpecScenario == InitScenario /\ [][NextScenario]_vars

(***************************************************************************)
(* Initial states of the reassembler.  Parts of one kind differ in their   *)
(* id only, so the initial parts are listed in nondecreasing kind.         *)
(* Contact number 1 or contact number 2 has a conversation; carrier id 1   *)
(* may already be saved; with syncMessagePartProcessing the newest part is *)
(* younger than ten minutes.                                               *)
(***************************************************************************)
Part(service, service_id, parent_id, contact_number, part, total) ==
  [service |-> service, service_id |-> service_id, parent_id |-> parent_id,
   contact_number |-> contact_number, user_number |-> 1, part |-> part, total |-> total]

PartKinds ==
  <<Part("nexmo", 1, NoParent, 1, 1, 1),
    Part("nexmo", 1, NoParent, 2, 1, 1),
    Part("twilio", 1, NoParent, 1, 1, 1),
    Part("twilio", 2, 1, 1, 1, 2),
    Part("nexmo", 1, 1, 1, 1, 2),
    Part("nexmo", 3, 1, 1, 2, 2),
    Part("nexmo", 4, 2, 1, 1, 3),
    Part("nexmo", 5, 2, 1, 2, 3),
    Part("nexmo", 6, 2, 1, 3, 3)>>

WithId(id, kind) ==
  [id |-> id, service |-> kind.service, service_id |-> kind.service_id,
   parent_id |-> kind.parent_id, contact_number |-> kind.contact_number,
   user_number |-> kind.user_number, part |-> kind.part, total |-> kind.total]

SavedBefore ==
  <<[service_id |-> 1, service |-> "nexmo", contact_number |-> 1, text |-> <<0>>]>>

AssignIdle ==
  /\ campaign = (cid :> [use_dynamic_assignment |-> FALSE, is_archived |-> FALSE])
  /\ envMax = NULL
  /\ contact = <<>>
  /\ assignment = {}
  /\ nextAssignmentId = 1
  /\ job = [r \in Runs |-> [exists |-> FALSE, progress |-> 0]]
  /\ run = [r \in Runs |-> IdleRun]
  /\ tx = [r \in Runs |-> EmptyTx]
  /\ db0 = [contact |-> contact, assignment |-> assignment]

InitPartsOf(n, kinds, th, saved, sync) ==
  /\ pending = {WithId(c, PartKinds[kinds[c]]) : c \in 1..n}
  /\ message = saved
  /\ needsResponse = {}
  /\ threads = th
  /\ syncMessagePartProcessing = sync
  /\ young = IF sync /\ n > 0 THEN {n} ELSE {}
  /\ worker = [w \in Workers |-> IdleWorker]
  /\ parts0 = [pending |-> pending, message |-> message, young |-> young]
  /\ AssignIdle
  /\ StickyIdle
  /\ ImportIdle
  /\ SenderIdle
  /\ JobsIdle

InitParts ==
  \E n \in 0..MaxParts, th \in {{1}, {2}}, saved \in {<<>>, SavedBefore},
     sync \in BOOLEAN :
    \E kinds \in [1..n -> 1..Len(PartKinds)] :
      /\ \A c \in 1..(n - 1) : kinds[c] <= kinds[c + 1]
      /\ InitPartsOf(n, kinds, th, saved, sync)

NextParts ==
  \/ handleIncomingMessageParts(1)
  \/ Tick

SpecParts == InitParts /\ [][NextParts]_vars

(***************************************************************************)
(* Two workers run passes at once, on at most two parts without a group    *)
(* and with a conversation; no grace age.                                  *)
(***************************************************************************)
InitPartsConcurrent ==
  \E n \in 1..(MaxParts - 1), saved \in {<<>>, SavedBefore} :
    \E kinds \in [1..n -> {1, 3}] :
      /\ \A c \in 1..(n - 1) : kinds[c] <= kinds[c + 1]
      /\ InitPartsOf(n, kinds, {1}, saved, FALSE)

NextPartsConcurrent ==
  \E w \in Workers : handleIncomingMessageParts(w)

SpecPartsConcurrent == InitPartsConcurrent /\ [][NextPartsConcurrent]_vars

(***************************************************************************)
(* Initial states of the router: every (cell, organization) of a contact   *)
(* is unbound or bound to an identity of the organization.                 *)
(***************************************************************************)
Keys == <<<<1, 1>>, <<2, 1>>, <<1, 2>>>>

RECURSIVE StickRows(_, _)
StickRows(sids, k) ==
  IF k > Len(Keys) THEN <<>>
  ELSE (IF sids[k] = NULL THEN <<>>
        ELSE <<[cell |-> Keys[k][1], organization_id |-> Keys[k][2],
                messaging_service_sid |-> sids[k]]>>) \o StickRows(sids, k + 1)

InitSticky ==
  /\ \E sids \in [1..Len(Keys) -> {NULL} \cup {m.messaging_service_sid :
                                                 m \in messaging_service}] :
       /\ \A k \in 1..Len(Keys) :
            sids[k] # NULL =>
              [messaging_service_sid |-> sids[k], organization_id |-> Keys[k][2]]
                \in messaging_service
       /\ messaging_service_stick = StickRows(sids, 1)
  /\ resolver = [p \in Resolvers |-> IdleResolver]
  /\ bulk = IdleBulk
  /\ returned = {}
  /\ DEFAULT_SERVICE \in {"twilio", "fakeservice"}
  /\ AssignIdle
  /\ PartsIdle
  /\ ImportIdle
  /\ SenderIdle
  /\ JobsIdle

NextSticky ==
  \/ \E p \in Resolvers : getContactMessagingService(p)
  \/ assignMissingMessagingServices(1, 1)
  \/ assignMissingMessagingServices(3, 3)

SpecSticky == InitSticky /\ [][NextSticky]_vars

(***************************************************************************)
(* Initial states of the import: the job row exists with no progress, the  *)
(* campaign holds a contact of an earlier upload and the other campaign    *)
(* holds two contacts, one with a cell the organization opted out.         *)
(***************************************************************************)
EarlierContacts ==
  {[id |-> 1, campaign_id |-> cid, cell |-> getFormattedPhoneNumber(RawCell("1"))],
   [id |-> 2, campaign_id |-> OtherCampaign,
    cell |-> getFormattedPhoneNumber(RawCell("1"))],
   [id |-> 3, campaign_id |-> OtherCampaign,
    cell |-> getFormattedPhoneNumber(RawCell("2"))]}

InitImport ==
  /\ \E payload \in Payloads, n \in 0..MaxRows :
       \E table \in [1..n -> RawCells] :
         /\ warehouse = table
         /\ loader = [IdleLoader EXCEPT !.pc = "ready", !.payload = payload]
  /\ campaign_contact = EarlierContacts
  /\ nextContactId = 4
  /\ job_request = [exists |-> TRUE, status |-> 0, result_message |-> <<>>]
  /\ fragment = [e \in Executors |-> IdleFragment]
  /\ lambda = {}
  /\ deliveries = 0
  /\ WAREHOUSE_DB_LAMBDA_ITERATION \in BOOLEAN
  /\ processed = {}
  /\ import0 = campaign_contact
  /\ AssignIdle
  /\ PartsIdle
  /\ StickyIdle
  /\ SenderIdle
  /\ JobsIdle

NextImport ==
  \/ loadContactsFromDataWarehouse
  \/ \E e \in Executors : loadContactsFromDataWarehouseFragment(e)
  \/ \E e \in Executors : Deliver(e)
  \/ CancelJob

SpecImport == InitImport /\ [][NextImport]_vars

\* an await of the import that can continue does continue: the loader and the
\* fragment it awaits in-process run to their end
SpecImportFair ==
  /\ SpecImport
  /\ WF_vars(loadContactsFromDataWarehouse)
  /\ WF_vars(loadContactsFromDataWarehouseFragment(1))

(***************************************************************************)
(* Initial states of the sender loop: up to MaxMessages rows of message,   *)
(* queued or already sent, no transaction open.                            *)
(***************************************************************************)
InitSend ==
  /\ \E n \in 0..MaxMessages : outbound \in [1..n -> {"QUEUED", "SENT"}]
  /\ rowLock = [m \in DOMAIN outbound |-> NoSender]
  /\ sender = [w \in Senders |-> IdleSender]
  /\ dispatched = {}
  /\ knexBound \in BOOLEAN
  /\ AssignIdle
  /\ PartsIdle
  /\ StickyIdle
  /\ ImportIdle
  /\ JobsIdle

NextSend == \E w \in Senders : sendMessages(w)

SpecSend == InitSend /\ [][NextSend]_vars

(***************************************************************************)
(* Initial states of the upload and export jobs: both job rows exist, the  *)
(* campaign has contacts of an earlier upload, and the payloads and the    *)
(* configuration are any of the model's.                                   *)
(***************************************************************************)
InitJobs ==
  /\ uploadJob = [exists |-> TRUE, status |-> 0, result_message |-> <<>>]
  /\ uploadedContacts = 1
  /\ \E n \in 0..MaxChunks, landlines \in BOOLEAN, exclude \in BOOLEAN,
        key \in BOOLEAN, maxContacts \in {0, 2} :
       uploader = [IdleUploader EXCEPT
                     !.pc = "ready",
                     !.payload = [contacts |-> n, filterOutLandlines |-> landlines,
                                  excludeCampaignIds |-> exclude],
                     !.numbersApiKey = key, !.maxContacts = maxContacts]
  /\ exportJob = [exists |-> TRUE, status |-> 0, result_message |-> <<>>]
  /\ \E valid \in BOOLEAN :
       exporter = [IdleExporter EXCEPT !.pc = "ready", !.validConfig = valid]
  /\ poller = IdlePoller
  /\ AssignIdle
  /\ PartsIdle
  /\ StickyIdle
  /\ ImportIdle
  /\ SenderIdle

NextJobs ==
  \/ uploadContacts
  \/ exportCampaign

SpecJobs == InitJobs /\ [][NextJobs]_vars

\* one call of processSqsMessages, with or without the queue URL configured
InitSqs ==
  /\ \E url \in BOOLEAN : poller = [IdlePoller EXCEPT !.TWILIO_SQS_QUEUE_URL = url]
  /\ uploadJob = NoJob
  /\ uploadedContacts = 0
  /\ uploader = IdleUploader
  /\ exportJob = NoJob
  /\ exporter = IdleExporter
  /\ AssignIdle
  /\ PartsIdle
  /\ StickyIdle
  /\ ImportIdle
  /\ SenderIdle

NextSqs == processSqsMessages

SpecSqs == InitSqs /\ [][NextSqs]_vars

(***************************************************************************)
(* Claims about assignTexters.                                             *)
(***************************************************************************)
needs0(a) ==
  Cardinality({c \in DOMAIN db0.contact :
     db0.contact[c].assignment_id = a.id
     /\ db0.contact[c].message_status = "needsMessage"})

full0(a) ==
  Cardinality({c \in DOMAIN db0.contact : db0.contact[c].assignment_id = a.id})

\* the roster entry of a's texter (the first, if the texter is named twice)
\* asks for what is persisted
DesiredEqualsPersisted(r, a) ==
  LET i == FindTexter(run[r].payload, a.user_id) IN
  /\ i # 0
  /\ IF Dynamic THEN run[r].payload[i].maxContacts = a.max_contacts
                ELSE run[r].payload[i].needsMessageCount = needs0(a)

NoWritesFor(r, a) ==
  /\ a.id \notin tx[r].adel
  /\ a.id \notin DOMAIN tx[r].amax
  /\ \A c \in DOMAIN tx[r].cw :
       db0.contact[c].assignment_id # a.id /\ tx[r].cw[c] # a.id
  /\ run[r].pc = "done" =>
       /\ a \in assignment
       /\ \A c \in DOMAIN contact :
            (db0.contact[c].assignment_id = a.id \/ contact[c].assignment_id = a.id)
              => contact[c] = db0.contact[c]

Running(r) == run[r].pc \notin {"idle", "failed"}

\* C1: a claim of one run takes only contacts that are unassigned in its view
\* and that the other run has not written, so no contact is ever held by the
\* uncommitted writes of both runs and a reference set by one run's claim is
\* never overwritten by the other run's claim
C1_NoDoubleClaim ==
  /\ [](\A c \in DOMAIN contact :
          ~(c \in DOMAIN tx[1].cw /\ c \in DOMAIN tx[2].cw))
  /\ [][\A r \in Runs : \A p \in run'[r].claimed \ run[r].claimed :
          /\ \A o \in Runs \ {r} : p[1] \notin DOMAIN tx[o].cw
          /\ CAsg(r, p[1]) = NoAssignment]_vars

\* both runs hold uncommitted claims at the same time
C1_Witness ==
  /\ \E c \in DOMAIN tx[1].cw : tx[1].cw[c] # NoAssignment
  /\ \E c \in DOMAIN tx[2].cw : tx[2].cw[c] # NoAssignment

\* C2 as stated: a texter whose roster entry equals the persisted state gets
\* no write: its assignment row is neither updated nor deleted, no contact of
\* its assignment is modified and no contact is added to it
C2_Original ==
  \A a \in db0.assignment :
    (a.campaign_id = cid /\ Running(1) /\ DesiredEqualsPersisted(1, a))
      => NoWritesFor(1, a)

\* C2 amended: the same, unless the campaign is in standard mode and no contact
\* at all references the assignment (the zero-contact cleanup then deletes it)
C2_UnchangedNoWrites ==
  \A a \in db0.assignment :
    (a.campaign_id = cid /\ Running(1) /\ DesiredEqualsPersisted(1, a)
     /\ (Dynamic \/ full0(a) > 0))
      => NoWritesFor(1, a)

\* a committed run that left texter 1 unchanged and claimed contacts for texter 2
C2_Witness ==
  /\ run[1].pc = "done"
  /\ run[1].claimed # {}
  /\ \E a \in db0.assignment :
       a.campaign_id = cid /\ DesiredEqualsPersisted(1, a) /\ full0(a) > 0

\* Scenario A: 100 unassigned needsMessage contacts, texter 2 has no assignment
\* and is the first of the roster, requesting 40
ScenarioA(r) ==
  /\ \A c \in 1..100 : db0.contact[c].assignment_id = NoAssignment
  /\ Len(run[r].payload) >= 1
  /\ run[r].payload[1].id = 2
  /\ run[r].payload[1].needsMessageCount = 40

AssignmentsOf(u) == {a \in assignment : a.campaign_id = cid /\ a.user_id = u}

\* C3: in Scenario A availableContacts is 60 after the texter's roster step, and
\* the run ends with exactly one Assignment for the texter, a new one, that
\* exactly 40 contacts reference
C3_ScenarioA ==
  ScenarioA(1) =>
    /\ (run[1].pc = "walk" /\ run[1].index = 2) => run[1].availableContacts = 60
    /\ run[1].pc = "done" =>
         /\ Cardinality(AssignmentsOf(2)) = 1
         /\ \A a \in AssignmentsOf(2) :
              /\ a \notin db0.assignment
              /\ Cardinality({c \in DOMAIN contact :
                                contact[c].assignment_id = a.id}) = 40

\* Scenario A has run to its end
C3_Witness ==
  /\ ScenarioA(1)
  /\ run[1].pc = "done"
  /\ AssignmentsOf(2) # {}

\* Scenario B: texter 1 holds 10 needsMessage contacts and nothing else, and the
\* roster is its entry with needsMessageCount 4 and contactsCount 4
ScenarioB(r) ==
  /\ needs0([id |-> 1]) = 10
  /\ full0([id |-> 1]) = 10
  /\ run[r].payload = <<[id |-> 1, needsMessageCount |-> 4, contactsCount |-> 4,
                         maxContacts |-> NULL]>>

ClaimedFor(r, id) == {p \in run[r].claimed : p[2] = id}

\* C4 as stated: in Scenario B the run releases 6 of the texter's contacts and
\* claims no contact for the texter
C4_Original ==
  (ScenarioB(1) /\ run[1].pc = "done") =>
    /\ Cardinality(run[1].released) = 6
    /\ ClaimedFor(1, 1) = {}

\* C4 amended: in Scenario B the run releases all 10 contacts of the texter and
\* claims 4 unassigned contacts for it, so that its assignment ends with 4
\* needsMessage contacts, 6 fewer than before
C4_ScenarioB ==
  (ScenarioB(1) /\ run[1].pc = "done") =>
    /\ Cardinality(run[1].released) = 10
    /\ \A c \in run[1].released : db0.contact[c].assignment_id = 1
    /\ Cardinality(ClaimedFor(1, 1)) = 4
    /\ Cardinality({c \in DOMAIN contact :
                      /\ contact[c].assignment_id = 1
                      /\ contact[c].message_status = "needsMessage"}) = 4

\* Scenario B has run to its end
C4_Witness ==
  /\ ScenarioB(1)
  /\ run[1].pc = "done"
  /\ run[1].released # {}

\* C5: after a failed run the committed assignment rows and contact references
\* are those of before the run
C5_FailureRollsBack ==
  run[1].pc = "failed" => (contact = db0.contact /\ assignment = db0.assignment)

\* a run that failed after it had inserted an assignment row
C5_Witness ==
  run[1].pc = "failed" /\ nextAssignmentId > 3 /\ job[1].progress >= 20

(***************************************************************************)
(* Claims about handleIncomingMessageParts.                                *)
(***************************************************************************)
\* the first pass of worker w has run to its end
FirstPassDone(w) ==
  worker[w].pc = "idle" /\ worker[w].last = "done" /\ worker[w].passes = 1

\* the initial parts of a group key (parent id, contact number)
GroupRows(p, c) ==
  {x \in parts0.pending :
     x.parent_id = p /\ x.contact_number = c /\ x.service = "nexmo"}

\* G is a multipart group of n >= 2 parts: total n, each index 1..n once,
\* and every part old enough to be in the batch
WholeGroup(G) ==
  /\ Cardinality(G) >= 2
  /\ \A x \in G : x.total = Cardinality(G) /\ x.id \notin parts0.young
  /\ \A j \in 1..Cardinality(G) : Cardinality({x \in G : x.part = j}) = 1

ExpectedText(G) ==
  [j \in 1..Cardinality(G) |-> (CHOOSE x \in G : x.part = j).id]

\* the messages saved since the initial state that contain a part of G
BuiltFrom(G) ==
  {j \in (Len(parts0.message) + 1)..Len(message) :
     \E h \in 1..Len(message[j].text) : message[j].text[h] \in {x.id : x \in G}}

OneMessageInOrder(G) ==
  /\ Cardinality(BuiltFrom(G)) = 1
  /\ \A j \in BuiltFrom(G) : message[j].text = ExpectedText(G)

SavedIds0 == {parts0.message[j].service_id : j \in 1..Len(parts0.message)}

\* C6 as stated: a pass whose batch holds all n parts of a group, in any order,
\* yields exactly one message of the group, its parts in ascending index order
C6_Original ==
  \A p \in {x.parent_id : x \in parts0.pending} \ {NoParent} :
    \A c \in {x.contact_number : x \in parts0.pending} :
      (WholeGroup(GroupRows(p, c)) /\ FirstPassDone(1))
        => OneMessageInOrder(GroupRows(p, c))

\* C6 amended: the same, provided the contact number has a conversation and no
\* saved message and no other part of the batch has the carrier id of a part of
\* the group
C6_GroupReassembled ==
  \A p \in {x.parent_id : x \in parts0.pending} \ {NoParent} :
    \A c \in {x.contact_number : x \in parts0.pending} :
      LET G == GroupRows(p, c) IN
      (/\ WholeGroup(G)
       /\ FirstPassDone(1)
       /\ c \in threads
       /\ \A x \in G : x.service_id \notin SavedIds0
       /\ \A x \in G : \A y \in parts0.pending \ G : y.service_id # x.service_id)
        => OneMessageInOrder(G)

\* a pass has saved the message of a group of three parts
C6_Witness ==
  /\ FirstPassDone(1)
  /\ \E p \in {x.parent_id : x \in parts0.pending} \ {NoParent} :
       \E c \in threads :
         /\ WholeGroup(GroupRows(p, c))
         /\ Cardinality(GroupRows(p, c)) = 3
         /\ BuiltFrom(GroupRows(p, c)) # {}

\* two initial parts without a group id that share carrier and carrier id, with
\* a conversation each, the carrier id not saved and on no part with a group id
ScenarioC(x, y) ==
  /\ x.id # y.id
  /\ x.parent_id = NoParent /\ y.parent_id = NoParent
  /\ x.service = y.service /\ x.service_id = y.service_id
  /\ x.contact_number \in threads /\ y.contact_number \in threads
  /\ x.service_id \notin SavedIds0
  /\ x.id \notin parts0.young /\ y.id \notin parts0.young
  /\ \A z \in parts0.pending : z.parent_id # NoParent => z.service_id # x.service_id

\* C7: after a pass over Scenario C exactly one message with the carrier id is
\* saved and both parts are gone from pending_message_part
C7_ScenarioC ==
  \A x \in parts0.pending : \A y \in parts0.pending :
    (ScenarioC(x, y) /\ FirstPassDone(1)) =>
      /\ Cardinality({j \in 1..Len(message) :
                        message[j].service_id = x.service_id}) = 1
      /\ \A z \in pending : z.id # x.id /\ z.id # y.id

\* a pass over Scenario C has run to its end
C7_Witness ==
  /\ FirstPassDone(1)
  /\ \E x \in parts0.pending : \E y \in parts0.pending : ScenarioC(x, y)
  /\ Len(message) > 0

\* C8: no two saved messages have the same carrier id
C8_UniqueServiceId ==
  \A i \in 1..Len(message) : \A j \in 1..Len(message) :
    i # j => message[i].service_id # message[j].service_id

LimitMessage == "Error: LIMIT in query not supported for results larger than STEP"

\* Scenario D: the statement holds "LIMIT 50" and its rows need several fragments
ScenarioD ==
  /\ loader.pc # "idle"
  /\ loader.payload.verb = "SELECT" /\ ~loader.payload.semicolon
  /\ loader.payload.table = "people"
  /\ loader.payload.limits = <<[kw |-> "LIMIT", n |-> 50]>>
  /\ Ceil(Len(warehouse), STEP) > 1

Malformed == ~StartsWithSELECT(loader.payload) \/ HasSemicolon(loader.payload)
MissingColumns == ~(RequiredColumns \subseteq loader.payload.columns)

\* the import has ended: the loader returned, or the fragments it started did
ImportEnded ==
  \/ loader.pc = "done"
  \/ loader.pc = "fragment" /\ \A e \in Executors : fragment[e].pc = "idle"

\* C12: an import of an invalid statement (malformed, or without first_name,
\* last_name and cell) deletes and inserts no contact
C12_InvalidNoMutation ==
  (loader.pc # "idle" /\ (Malformed \/ MissingColumns)) =>
    campaign_contact = import0

\* C13: when an import whose statement fails a validation (malformed, missing
\* required columns, LIMIT conflict) has ended, the job row, while it exists,
\* holds a result message
C13_ValidationRecorded ==
  (/\ loader.pc # "idle"
   /\ Malformed \/ MissingColumns \/ ScenarioD
   /\ ImportEnded
   /\ job_request.exists) =>
    job_request.result_message # <<>>

\* C14: a delivered fragment whose part was already processed inserts no
\* contact and does not move the progress counter, and a fragment delivered
\* when the job row does not exist ends at once and changes nothing
C14_RedeliveryNoOp ==
  [][\A e \in Executors :
       /\ (/\ fragment[e].pc = "save"
           /\ fragment'[e] # fragment[e]
           /\ fragment[e].jobEvent.part \in processed)
          => (campaign_contact' = campaign_contact /\ job_request' = job_request)
       /\ (/\ fragment[e].pc = "check"
           /\ fragment'[e] # fragment[e]
           /\ ~job_request.exists)
          => (/\ fragment'[e].pc = "idle"
              /\ campaign_contact' = campaign_contact
              /\ job_request' = job_request)]_vars

\* the step of a fragment that runs the cleanup passes
CleanupStep ==
  \E e \in Executors :
    /\ fragment[e].pc = "completed"
    /\ fragment'[e].pc = "idle"
    /\ fragment'[e].last = "completed"

\* C15: on the pool the three cleanup passes leave, each pass run again, and
\* the three run again in their order, delete no contact
C15_CleanupIdempotent ==
  [][CleanupStep =>
       /\ DeleteOptOutCells(campaign_contact', 1, cid) = campaign_contact'
       /\ DeleteInvalidCells(campaign_contact', cid) = campaign_contact'
       /\ DeleteDuplicateCells(campaign_contact', cid) = campaign_contact'
       /\ CleanupPasses(campaign_contact', 1, cid) = campaign_contact']_vars

\* the passes ran on a pool with an opted-out cell, a malformed cell and a cell
\* held by three contacts, and removed contacts
C15_Witness ==
  /\ \E e \in Executors : fragment[e].last = "completed"
  /\ ~job_request.exists
  /\ {warehouse[k] : k \in 1..Len(warehouse)} = RawCells
  /\ Cardinality({k \in 1..Len(warehouse) : warehouse[k] = RawCell("1")}) = 3
  /\ nextContactId = 4 + Len(warehouse)
  /\ Cardinality({c \in campaign_contact : c.campaign_id = cid}) = 1
  /\ CleanupPasses(campaign_contact, 1, cid) = campaign_contact

\* the contacts of the campaign with the cell, in a pool
SameCell(pool, cell) == {c \in pool : c.campaign_id = cid /\ c.cell = cell}

\* C16: after the duplicate pass every cell that several contacts of the
\* campaign had is left with exactly one contact, the one with the lowest id
C16_LowestIdKept ==
  [][CleanupStep =>
       LET before == DeleteInvalidCells(DeleteOptOutCells(campaign_contact, 1, cid), cid)
       IN  \A c \in before :
             Cardinality(SameCell(before, c.cell)) > 1 =>
               /\ Cardinality(SameCell(campaign_contact', c.cell)) = 1
               /\ \A x \in SameCell(campaign_contact', c.cell) :
                    \A y \in SameCell(before, c.cell) : x.id <= y.id]_vars

\* C20: once the job row is deleted, a fragment that starts returns at once
\* and inserts nothing; a fragment that finds the row missing after its insert
\* runs no cleanup and hands off no continuation; and with the row missing and
\* no fragment running no contact is inserted any more
C20_DeletionCancels ==
  [][/\ \A e \in Executors :
          (fragment[e].pc = "check" /\ fragment'[e] # fragment[e] /\ ~job_request.exists)
          => (/\ fragment'[e].pc = "idle"
              /\ campaign_contact' = campaign_contact
              /\ nextContactId' = nextContactId
              /\ lambda' = lambda)
     /\ \A e \in Executors :
          (fragment[e].pc = "completed" /\ fragment'[e] # fragment[e]
           /\ ~job_request.exists)
          => (/\ fragment'[e].pc = "idle"
              /\ campaign_contact' = campaign_contact
              /\ lambda' = lambda)
     /\ (~job_request.exists /\ \A e \in Executors : fragment[e].pc = "idle")
          => (/\ nextContactId' = nextContactId
              /\ campaign_contact' \subseteq campaign_contact
              /\ ~job_request'.exists)]_vars

\* the job row was deleted while parts were still to load: a fragment that
\* started afterwards returned at once and nothing runs any more
C20_Witness ==
  /\ ~job_request.exists
  /\ processed # {}
  /\ Cardinality(processed) < Ceil(Len(warehouse), STEP)
  /\ \E e \in Executors : fragment[e].last = "alreadyComplete"
  /\ \A e \in Executors : fragment[e].pc = "idle"
  /\ nextContactId < 4 + Len(warehouse)

(***************************************************************************)
(* Claims about the carriers of a reassembly pass.                         *)
(***************************************************************************)
\* the carriers of the pass after the current one that have parts to process
CarriersLeft(w) ==
  {s \in {worker[w].services[j] : j \in 2..Len(worker[w].services)} :
     SelectParts(worker[w].batch, s, syncMessagePartProcessing) # <<>>}

\* C19: a pass does not end on the failure of one carrier's batch while the
\* batch of another carrier of the pass is still to be processed, saved and
\* deleted
C19_CarriersIsolated ==
  [][\A w \in Workers :
       (/\ worker[w].pc \in {"loop", "save", "delete"}
        /\ worker'[w].pc = "idle"
        /\ worker'[w].last = "failed")
       => CarriersLeft(w) = {}]_vars

(***************************************************************************)
(* Claims about the outbound sender loop.                                  *)
(***************************************************************************)
\* C17: a sendMessages call whose claim finds queued rows locked by another
\* sender does not wait: it returns without an error, and no message is
\* dispatched
C17_NonBlockingClaim ==
  [][\A w \in Senders :
       (/\ sender[w].pc = "select"
        /\ LockedByOther(w) # {}
        /\ sender'[w] # sender[w])
       => (/\ sender'[w].pc = "idle"
           /\ sender'[w].last = "graceful"
           /\ dispatched' = dispatched)]_vars

\* C18: no message is dispatched to its carrier adapter by both senders
C18_NoDoubleDispatch ==
  \A m \in DOMAIN outbound :
    ~(<<1, m>> \in dispatched /\ <<2, m>> \in dispatched)

(***************************************************************************)
(* Claims about the committed state of assignTexters.                      *)
(***************************************************************************)
\* C21: in every reachable state the committed assignment table holds at most
\* one row per (campaign, texter)
C21_OneAssignmentPerTexter ==
  \A a \in assignment : \A b \in assignment :
    (a.campaign_id = b.campaign_id /\ a.user_id = b.user_id) => a.id = b.id

\* C22: in every reachable state the assignment reference of a committed
\* contact, if set, is the id of a committed assignment of the contact's own
\* campaign
C22_ReferencesExist ==
  \A c \in DOMAIN contact :
    contact[c].assignment_id # NoAssignment =>
      \E a \in assignment :
        a.id = contact[c].assignment_id /\ a.campaign_id = contact[c].campaign_id

(***************************************************************************)
(* Claims about the job records.                                           *)
(***************************************************************************)
\* C23: in every reachable state the progress value of the job row of an
\* upload, landline filtering included, is within 0..100
C23_ProgressInRange ==
  uploadJob.exists => uploadJob.status \in 0..100

\* the same for the job rows of assignTexters runs
AssignProgressInRange ==
  \A r \in Runs : job[r].progress \in 0..100

\* the same for the job row of a warehouse import
ImportProgressInRange ==
  job_request.status \in 0..100

\* C25: a run of uploadContacts or exportCampaign that has returned (without
\* throwing) has left no job row behind
C25_CompletedJobDeleted ==
  /\ (uploader.pc = "done" /\ uploader.last = "done") => ~uploadJob.exists
  /\ (exporter.pc = "done" /\ exporter.last \in {"done", "fetch error"})
       => ~exportJob.exists

\* the same for an assignTexters run that has committed
AssignJobDeleted ==
  \A r \in Runs : run[r].pc = "done" => ~job[r].exists

(***************************************************************************)
(* Claims about the modes of assignTexters.                                *)
(***************************************************************************)
\* C24: in dynamic mode a run changes no contact's assignment reference,
\* neither in its transaction nor in the committed table
C24_DynamicLeavesContacts ==
  Dynamic =>
    /\ \A c \in DOMAIN contact : CAsg(1, c) = db0.contact[c].assignment_id
    /\ contact = db0.contact

\* jobs.js 789-797: numDifferent of a roster entry and the persisted aggregates
numDifferent(t, a) ==
  t.needsMessageCount - needs0(a)
    - Max(0, (full0(a) - needs0(a)) - (t.contactsCount - t.needsMessageCount))

NamedOnce(r, u) ==
  Cardinality({i \in 1..Len(run[r].payload) : run[r].payload[i].id = u}) = 1

NeedsNow(id) ==
  Cardinality({c \in DOMAIN contact :
     contact[c].assignment_id = id /\ contact[c].message_status = "needsMessage"})

\* the turn of roster entry i in the walk of run r
TurnOf(r, i) == {w \in {run[r].walked[k] : k \in 1..Len(run[r].walked)} : w.index = i}

\* C26: after a committed standard-mode run, a changed texter (named once in
\* the roster) with signed delta d < 0 holds exactly |d| fewer needsMessage
\* contacts than were persisted, where the pool at its turn covered its entry;
\* with d >= 0 the run claimed exactly d contacts for it, or the whole pool at
\* its turn if that was smaller
C26_SignedDelta ==
  \A a \in db0.assignment :
    (a.campaign_id = cid /\ ~Dynamic /\ run[1].pc = "done"
     /\ NamedOnce(1, a.user_id) /\ ~DesiredEqualsPersisted(1, a)) =>
      LET i == FindTexter(run[1].payload, a.user_id)
          t == run[1].payload[i]
          d == numDifferent(t, a)
      IN  \A w \in TurnOf(1, i) :
            IF d < 0
              THEN w.availableContacts >= t.needsMessageCount
                     => NeedsNow(a.id) = needs0(a) + d
              ELSE Cardinality(ClaimedFor(1, a.id)) = Min(d, w.availableContacts)

\* the d >= 0 half of C26
C26_Intake ==
  \A a \in db0.assignment :
    (a.campaign_id = cid /\ ~Dynamic /\ run[1].pc = "done"
     /\ NamedOnce(1, a.user_id) /\ ~DesiredEqualsPersisted(1, a)) =>
      LET i == FindTexter(run[1].payload, a.user_id)
          d == numDifferent(run[1].payload[i], a)
      IN  \A w \in TurnOf(1, i) :
            d >= 0 => Cardinality(ClaimedFor(1, a.id)) = Min(d, w.availableContacts)

RECURSIVE SumToAssign(_)
SumToAssign(seq) ==
  IF seq = <<>> THEN 0 ELSE seq[1].contactsToAssign + SumToAssign(Tail(seq))

\* the roster walk of run r has begun (availableContacts has been counted)
Walking(r) ==
  run[r].pc \in {"walk", "dynamic", "existing", "new", "newclaim", "zero",
                 "zerodel", "jobdel", "commit"}

\* C27: during the roster walk availableContacts is never negative, the turn
\* of every non-unchanged texter takes min(availableContacts at its turn, its
\* desired intake), what the directives of the walk carry is what the turns
\* took, and the turns together take no more than the count of unassigned
\* contacts made after the release
C27_WalkWithinPool ==
  Walking(1) =>
    /\ run[1].availableContacts >= 0
    /\ \A k \in 1..Len(run[1].walked) :
         LET w == run[1].walked[k] IN
         w.contactsToAssign = Min(w.availableContacts, w.needsMessageCount)
    /\ ~Dynamic =>
         SumToAssign(run[1].existingAssignments) + SumToAssign(run[1].newAssignments)
           = SumToAssign(run[1].walked)
    /\ SumToAssign(run[1].walked) <= run[1].counted
    /\ run[1].availableContacts = run[1].counted - SumToAssign(run[1].walked)

\* a walk whose first texter took contacts and whose second texter got less
\* than its desired intake because the pool ran out
C27_Witness ==
  /\ Walking(1)
  /\ Len(run[1].walked) = 2
  /\ run[1].walked[1].contactsToAssign > 0
  /\ run[1].walked[2].contactsToAssign > 0
  /\ run[1].walked[2].contactsToAssign < run[1].walked[2].needsMessageCount

\* the committed assignments of the campaign that no committed contact references
ZeroContact ==
  {a \in assignment :
     a.campaign_id = cid /\ ~\E c \in DOMAIN contact : contact[c].assignment_id = a.id}

\* C28: after a committed standard-mode run no assignment of the campaign is
\* without contacts; after a committed dynamic-mode run every assignment of
\* before the run is still there and an assignment without contacts remains
C28_ZeroContactAssignments ==
  run[1].pc = "done" =>
    IF Dynamic
      THEN /\ \A a \in db0.assignment : \E b \in assignment : b.id = a.id
           /\ \A a \in db0.assignment :
                (a.campaign_id = cid /\ ~\E c \in DOMAIN db0.contact :
                                           db0.contact[c].assignment_id = a.id)
                  => a.id \in {b.id : b \in ZeroContact}
      ELSE ZeroContact = {}

\* a committed standard-mode run that deleted an assignment left without
\* contacts by its release
C28_Witness ==
  /\ run[1].pc = "done"
  /\ ~Dynamic
  /\ run[1].released # {}
  /\ \E a \in db0.assignment : a.campaign_id = cid /\ a \notin assignment

\* a committed dynamic-mode run that created an assignment and left it, and the
\* persisted one, without contacts
C28_WitnessDynamic ==
  /\ run[1].pc = "done"
  /\ Dynamic
  /\ Cardinality(ZeroContact) = 2

\* C29: after a run whose texter notification failed, the writes of the run
\* are committed: every contact it claimed references the assignment it was
\* claimed for
C29_NotificationFailureCommits ==
  (run[1].pc = "failed" /\ run[1].failure = "notification") =>
    \A p \in run[1].claimed : contact[p[1]].assignment_id = p[2]

(***************************************************************************)
(* More claims about the sticky router.                                    *)
(***************************************************************************)
\* C30: a call that found no binding for its (cell, organization), and whose
\* key is still unbound when it assigns, appends exactly one binding of the
\* cell to an identity of the organization that no other identity of the
\* organization has fewer bindings than, and returns that identity
C30_AssignsLeastBound ==
  [][\A p \in Resolvers :
       (/\ resolver[p].pc = "lookedup"
        /\ resolver'[p].pc \in {"done", "error"}
        /\ resolver[p].existing = NULL
        /\ Bindings(resolver[p].cell, resolver[p].organization_id) = {})
       => \E m \in messaging_service :
            /\ m.organization_id = resolver[p].organization_id
            /\ \A o \in messaging_service :
                 o.organization_id = resolver[p].organization_id =>
                   StickCount(m.messaging_service_sid)
                     <= StickCount(o.messaging_service_sid)
            /\ messaging_service_stick' =
                 Append(messaging_service_stick,
                        [cell |-> resolver[p].cell,
                         organization_id |-> resolver[p].organization_id,
                         messaging_service_sid |-> m.messaging_service_sid])
            /\ resolver'[p].pc = "done"
            /\ resolver'[p].result = m.messaging_service_sid]_vars

\* a call has bound an unbound cell of organization 1 to the identity that had
\* no binding while the other identity had one
C30_Witness ==
  \E p \in Resolvers :
    /\ resolver[p].pc = "done"
    /\ resolver[p].existing = NULL
    /\ resolver[p].organization_id = 1
    /\ resolver[p].result \in {1, 2}
    /\ Cardinality(Bindings(resolver[p].cell, 1)) = 1
    /\ StickCount(resolver[p].result) = 1
    /\ StickCount(3 - resolver[p].result) = 1


(***************************************************************************)
(* Claims C31..C40                                                         *)
(***************************************************************************)

\* the cells of a campaign's contacts without a binding in the organization
C31_Missing(campaignId, organizationId) ==
  {c \in Cells : /\ \E d \in 1..Len(CampaignContacts) :
                       /\ CampaignContacts[d].campaign_id = campaignId
                       /\ CampaignContacts[d].cell = c
                 /\ ~\E j \in 1..Len(messaging_service_stick) :
                       /\ messaging_service_stick[j].cell = c
                       /\ messaging_service_stick[j].organization_id = organizationId}

\* C31: the bulk variant selects exactly the cells of the campaign that have no
\* binding in the organization, each once; with K >= 1 candidates it writes
\* one binding per selected cell, cell[i] bound to candidate[i mod K] (i from
\* 0), and the bindings it commits are exactly those; with K = 0 it writes
\* nothing
C31_BulkRoundRobin ==
  [][/\ (bulk.pc = "idle" /\ bulk'.pc \in {"candidates", "commit"}) =>
          IF DEFAULT_SERVICE = "fakeservice"
            THEN bulk'.cells = <<>> /\ bulk'.pc = "commit"
            ELSE /\ SeqToSet(bulk'.cells) =
                      C31_Missing(bulk'.campaignId, bulk'.organizationId)
                 /\ Len(bulk'.cells) =
                      Cardinality(C31_Missing(bulk'.campaignId, bulk'.organizationId))
     /\ (bulk.pc = "candidates" /\ bulk'.pc \in {"insert", "commit"}) =>
          /\ bulk'.pc = "commit" <=> Len(bulk'.candidateServices) = 0
          /\ bulk'.trx = <<>>
     /\ (bulk.pc = "insert" /\ bulk'.pc = "commit") =>
          /\ Len(bulk'.trx) = Len(bulk.cells)
          /\ \A i \in 0..(Len(bulk.cells) - 1) :
               bulk'.trx[i + 1] =
                 [cell |-> bulk.cells[i + 1],
                  organization_id |-> bulk.organizationId,
                  messaging_service_sid |->
                    bulk.candidateServices[(i % Len(bulk.candidateServices)) + 1]]
     /\ (bulk.pc = "commit" /\ bulk'.pc = "idle") =>
          \/ messaging_service_stick' = messaging_service_stick
          \/ /\ messaging_service_stick' = messaging_service_stick \o bulk.trx
             /\ Len(bulk.trx) = Len(bulk.cells)
             /\ Len(bulk.candidateServices) > 0
     /\ (bulk.pc = "commit" /\ bulk'.pc = "idle"
           /\ Len(bulk.candidateServices) = 0) =>
          messaging_service_stick' = messaging_service_stick
    ]_vars

\* a call committed two cells over two candidates, bound in turn
C31_Witness ==
  /\ bulk.pc = "idle" /\ bulk.calls = 1
  /\ Len(bulk.cells) = 2 /\ Len(bulk.candidateServices) = 2
  /\ \A p \in Resolvers : resolver[p].calls = 0
  /\ \A i \in 1..2 :
       \E j \in 1..Len(messaging_service_stick) :
         messaging_service_stick[j] =
           [cell |-> bulk.cells[i], organization_id |-> 1,
            messaging_service_sid |-> bulk.candidateServices[i]]

\* a call for an organization without candidates reached its end with nothing
\* to write
C31_WitnessNoCandidates ==
  /\ bulk.pc = "commit" /\ bulk.organizationId = 3
  /\ Len(bulk.cells) = 1 /\ bulk.candidateServices = <<>> /\ bulk.trx = <<>>


\* the ids held in the slots of the groups of a pass that are not complete
C32_Incomplete(w) ==
  UNION {{worker[w].concatMessageParts[g].slots[j] :
            j \in 1..Len(worker[w].concatMessageParts[g].slots)} :
         g \in {h \in 1..Len(worker[w].concatMessageParts) :
                  \E i \in 1..Len(worker[w].concatMessageParts[h].slots) :
                     worker[w].concatMessageParts[h].slots[i] = 0}} \ {0}

\* the ids that went into the messages a pass staged
C32_Consumed(w) ==
  UNION {{worker[w].messagesToSave[k].text[j] :
            j \in 1..Len(worker[w].messagesToSave[k].text)} :
         k \in 1..Len(worker[w].messagesToSave)}

\* the ids of a pass's parts that were placed in a slot
C32_Slotted(w) ==
  UNION {{worker[w].concatMessageParts[g].slots[j] :
            j \in 1..Len(worker[w].concatMessageParts[g].slots)} :
         g \in 1..Len(worker[w].concatMessageParts)} \ {0}

\* C32: the delete of a pass leaves every fragment of a group that is still
\* incomplete in pending_message_part; a fragment it deletes is one of the
\* pass's parts that was either consumed into a staged message or dropped
\* without taking a slot; and a message the pass saves is either a part
\* without parent or the parts 1..total of one group, all present
C32_IncompleteGroupsStay ==
  [][\A w \in Workers :
       /\ (worker[w].pc = "delete" /\ worker'[w].pc = "service") =>
            /\ \A p \in pending : p.id \in C32_Incomplete(w) => p \in pending'
            /\ \A p \in pending \ pending' :
                 /\ \E j \in 1..Len(worker[w].allParts) : worker[w].allParts[j] = p
                 /\ \/ p.id \in C32_Consumed(w)
                    \/ p.id \notin C32_Slotted(w)
       /\ (worker[w].pc = "save" /\ message' # message) =>
            LET m == message'[Len(message')]
                first == PartById(worker[w].batch, m.text[1])
            IN  /\ message' = Append(message, m)
                /\ \/ Len(m.text) = 1 /\ first.parent_id = NoParent
                   \/ /\ Len(m.text) = first.total
                      /\ \A j \in 1..Len(m.text) :
                           LET p == PartById(worker[w].batch, m.text[j])
                           IN  /\ p.part = j
                               /\ p.parent_id = first.parent_id
                               /\ p.parent_id # NoParent
                               /\ p.contact_number = first.contact_number
                               /\ p.user_number = first.user_number
                               /\ m.text[j] \notin C32_Incomplete(w)
    ]_vars

\* a pass deleted parts and left the fragment of an incomplete group pending
C32_Witness ==
  \E w \in Workers :
    /\ worker[w].pc = "service"
    /\ worker[w].messagePartsToDelete # <<>>
    /\ \A j \in 1..Len(worker[w].messagePartsToDelete) :
         ~\E p \in pending : p.id = worker[w].messagePartsToDelete[j]
    /\ \E p \in pending : p.id \in C32_Incomplete(w)


\* a saved message was built from the part
C33_Built(p) ==
  \E j \in 1..Len(message) :
    \E k \in 1..Len(message[j].text) : message[j].text[k] = p.id

\* the part is one the loop drops: no conversation, its carrier id saved, or
\* its slot held by another part of its group
C33_Dropped(p) ==
  \/ p.contact_number \notin threads
  \/ \E j \in 1..Len(message) : message[j].service_id = p.service_id
  \/ /\ p.parent_id # NoParent
     /\ \E q \in parts0.pending :
          /\ q.id # p.id /\ q.service = p.service /\ q.part = p.part
          /\ q.parent_id = p.parent_id
          /\ q.contact_number = p.contact_number
          /\ q.user_number = p.user_number

\* C33: a pass deletes a consumed fragment only when the message built from
\* it is already saved; so in every state, also after a crash at any point of
\* a pass, a fragment that is gone was built into a saved message or was a
\* drop; and over a crashed pass and its re-run no fragment is built into two
\* saved messages
C33_SaveBeforeDelete ==
  /\ [][\A w \in Workers :
          (worker[w].pc = "delete" /\ worker'[w].pc = "service") =>
             \A p \in pending \ pending' :
               p.id \in C32_Consumed(w) => C33_Built(p)]_vars
  /\ [](\A p \in parts0.pending :
          p \notin pending => C33_Built(p) \/ C33_Dropped(p))
  /\ [](\A p \in parts0.pending :
          Cardinality({j \in 1..Len(message) :
                         \E k \in 1..Len(message[j].text) :
                           message[j].text[k] = p.id}) <= 1)

\* the pass that follows a crash between save and delete drops a fragment
\* whose message is saved
C33_Witness ==
  /\ worker[1].passes = 1
  /\ worker[1].pc \in {"loop", "save", "delete"}
  /\ \E p \in pending :
       /\ C33_Built(p)
       /\ \E j \in 1..Len(worker[1].messagePartsToDelete) :
            worker[1].messagePartsToDelete[j] = p.id


\* the receive call succeeded and returned no message
C34_EmptyResult ==
  \/ poller.result = "absent"
  \/ poller.result = "messages" /\ poller.Messages = <<>>

\* C34: when the receive call succeeded with an empty result and the call has
\* nothing left to run, the promise processSqsMessages returned is settled
C34_EmptyReceiveSettles ==
  (poller.pc = "done" /\ C34_EmptyResult) => poller.promise # "pending"


\* the texter of an assignment id, before or after the run
C35_UserOf(id) ==
  (CHOOSE a \in db0.assignment \cup assignment : a.id = id).user_id

\* the contacts that reference one texter's assignment before the run and
\* another texter's assignment after it
C35_Reassigned ==
  {c \in DOMAIN contact :
     /\ db0.contact[c].assignment_id # NoAssignment
     /\ contact[c].assignment_id # NoAssignment
     /\ C35_UserOf(db0.contact[c].assignment_id)
          # C35_UserOf(contact[c].assignment_id)}

C40_OnlyNeedsMessageOfCampaign ==
  \A c \in DOMAIN contact :
    /\ (db0.contact[c].assignment_id # NoAssignment
        /\ db0.contact[c].message_status # "needsMessage") =>
          /\ CAsg(1, c) = db0.contact[c].assignment_id
          /\ contact[c] = db0.contact[c]
    /\ db0.contact[c].campaign_id # cid =>
          /\ CAsg(1, c) = db0.contact[c].assignment_id
          /\ contact[c] = db0.contact[c]

\* a committed run released the needsMessage contacts of an assignment that
\* also holds a messaged contact, and claimed contacts, while another campaign
\* has an unassigned contact
C40_Witness ==
  /\ run[1].pc = "done"
  /\ run[1].claimed # {}
  /\ \E d \in run[1].released : \E c \in DOMAIN contact :
       /\ db0.contact[c].message_status = "messaged"
       /\ db0.contact[c].assignment_id = db0.contact[d].assignment_id
       /\ contact[c].assignment_id = db0.contact[c].assignment_id
  /\ \E c \in DOMAIN contact :
       /\ contact[c].campaign_id # cid
       /\ contact[c].assignment_id = NoAssignment


\* the statement names the required columns and an existing table, and the
\* fragments add no second LIMIT clause to it
C36_Valid ==
  /\ StartsWithSELECT(loader.payload) /\ ~HasSemicolon(loader.payload)
  /\ RequiredColumns \subseteq loader.payload.columns
  /\ loader.payload.table = "people"
  /\ loader.payload.limits = <<>> \/ Len(warehouse) <= STEP
  /\ Len(warehouse) > 0

\* the number of pages of STEP rows that hold count rows
C36_Pages(count) ==
  CHOOSE n \in 0..count : n * STEP >= count /\ (n - 1) * STEP < count

\* C36: with in-process continuation the fragment that runs the cleanup and
\* deletes the job row is part totalParts - 1 of totalParts = ceil(count/STEP),
\* every part 0..totalParts-1 has run exactly once before it, and the step
\* leaves no job row; and unless the job row is deleted from outside, an
\* import of a valid statement with count > 0 reaches that step
C36_ImportTerminates ==
  /\ [][\A e \in Executors :
          (/\ ~WAREHOUSE_DB_LAMBDA_ITERATION
           /\ fragment[e].pc = "completed"
           /\ fragment'[e].last = "completed" /\ fragment'[e].pc = "idle") =>
             /\ fragment[e].jobEvent.totalParts = C36_Pages(Len(warehouse))
             /\ fragment[e].jobEvent.part = fragment[e].jobEvent.totalParts - 1
             /\ processed = 0..(fragment[e].jobEvent.totalParts - 1)
             /\ job_request.status = fragment[e].jobEvent.totalParts
             /\ ~fragment[e].redelivered
             /\ job_request' = NoJob]_vars
  /\ (loader.pc = "fragment" /\ ~WAREHOUSE_DB_LAMBDA_ITERATION /\ C36_Valid)
       ~> (/\ fragment[1].pc = "idle"
           /\ \/ fragment[1].last = "completed" /\ ~job_request.exists
              \/ fragment[1].last \in {"deleted", "alreadyComplete"})

\* an in-process import of three parts ran to its end
C36_Witness ==
  /\ ~WAREHOUSE_DB_LAMBDA_ITERATION
  /\ C36_Valid
  /\ fragment[1].pc = "idle" /\ fragment[1].last = "completed"
  /\ processed = {0, 1, 2}
  /\ ~job_request.exists


\* the row indices (from 1) of the window of part p over count rows
C37_Window(p, count) ==
  {i \in 1..count : p * STEP < i /\ i <= (p + 1) * STEP}

\* C37: the descriptor of part 0 has no offset, that of part p > 0 has offset
\* p * STEP and limit STEP; the rows a fragment inserts are exactly the rows of
\* the window of its part; and the windows of the parts 0..totalParts-1 hold
\* every row of the result exactly once
C37_WindowsPartition ==
  [][\A e \in Executors :
       (fragment[e].pc = "save" /\ fragment'[e].pc = "completed") =>
          LET jobEvent == fragment[e].jobEvent
              count == Len(warehouse)
          IN  /\ jobEvent.part \in 0..(jobEvent.totalParts - 1)
              /\ jobEvent.offset = jobEvent.part * STEP
              /\ jobEvent.part > 0 => jobEvent.limit = STEP
              /\ jobEvent.part = 0 =>
                   jobEvent.limit = IF jobEvent.totalParts > 1 THEN STEP ELSE 0
              /\ Len(fragment[e].rows) = Cardinality(C37_Window(jobEvent.part, count))
              /\ \A k \in 1..Len(fragment[e].rows) :
                   /\ jobEvent.part * STEP + k \in C37_Window(jobEvent.part, count)
                   /\ fragment[e].rows[k] = warehouse[jobEvent.part * STEP + k]
              /\ nextContactId' = nextContactId + Len(fragment[e].rows)
              /\ \A i \in 1..count :
                   Cardinality({p \in 0..(jobEvent.totalParts - 1) :
                                  i \in C37_Window(p, count)}) = 1
    ]_vars

\* the three parts of a result of MaxRows rows were each loaded once
C37_Witness ==
  /\ Len(warehouse) = MaxRows
  /\ processed = 0..(Ceil(MaxRows, STEP) - 1)
  /\ Ceil(MaxRows, STEP) > 2
  /\ deliveries = 0
  /\ nextContactId = 4 + MaxRows
  /\ \E e \in Executors : fragment[e].pc = "completed"


\* C38: the step that runs the cleanup passes and deletes the job row is
\* taken only when every part 0..totalParts-1 has inserted its rows
C38_CleanupAfterAllParts ==
  [][\A e \in Executors :
       (/\ fragment[e].pc = "completed"
        /\ fragment'[e].pc = "idle" /\ fragment'[e].last = "completed") =>
          \A p \in 0..(fragment[e].jobEvent.totalParts - 1) : p \in processed
    ]_vars


\* C39: between the calls of a sender process its pastMessages holds only ids
\* of messages whose send is committed, so a message that is still queued is
\* not refused by the buffer in the next call
C39_BufferOnlyCommitted ==
  \A w \in Senders :
    sender[w].pc = "idle" =>
      \A j \in 1..Len(sender[w].pastMessages) :
        outbound[sender[w].pastMessages[j]] = "SENT"

====
